---- MODULE Spec2Model ----
(***************************************************************************)
(* Request validation and close-group consensus of the node                *)
(* (safenode/src/node/api.rs) and the close-group reductions of the client *)
(* register handle (sn_client/src/register.rs).                            *)
(*                                                                         *)
(* Spec        the node's Dbc pipeline (add_if_valid) at one node, with    *)
(*             the stores of the parents' close group drawn at Init.       *)
(* SpecGet     the same pipeline while conflicting parent spends reach     *)
(*             the peers of the parent's close group in any order.         *)
(* SpecReduce  the four close-group reductions applied to response         *)
(*             vectors drawn from a bounded alphabet.                      *)
(* SpecLoop    the node's event loop (Node::run) taking queries and cmds   *)
(*             from its inbox, one handler at a time.                      *)
(* SpecSend    send_and_get_responses over its peers, one outcome of       *)
(*             select_all at a time.                                       *)
(* SpecMerge   replicas of one Register applying writes and merging each   *)
(*             other.                                                      *)
(* SpecClient  one ClientRegister: local writes, push and sync against the *)
(*             responses of the close group.                               *)
(* SpecOp      one RegisterOp: built, signed by its owner or by an         *)
(*             external signer, and verified (sn_registers).               *)
(* SpecDistance NetworkAddress::distance over pairs of addresses.          *)
(* SpecRun     Node::run while the event channel delivers requests and     *)
(*             PeerAdded and may close.                                    *)
(* SpecOnline  one ClientRegister driven through its online writes.        *)
(* SpecLive    Spec under the fairness the per-peer timeout provides.      *)
(***************************************************************************)
EXTENDS Integers, Sequences, FiniteSets, TLC

VARIABLES
    spendStore,         \* node -> dbc id -> stored signed spend (NoSpend when vacant)
    doubleLog,          \* node -> set of <<a, b>> pairs (known double spends)
    pc,                 \* position of the request handler of the node Self
    cmd,                \* the Cmd::Dbc being handled (kept after the handler ends)
    idx,                \* validate_spend_parents: index of the input being fetched
    all_parent_spends,  \* validate_spend_parents: the BTreeSet of fetched parents
    request,            \* send_to_closest: the request being fanned out
    contacted,          \* send_and_get_responses: the peers the lookup returned
    pending,            \* send_and_get_responses: list_of_futures, as a set of peers
    responses,          \* send_and_get_responses: the responses vector
    delivered,          \* peers whose handle_request has run for the current request
    channel,            \* what was sent on the command's response channel
    ret,                \* what add_if_valid returned for cmd
    fetchLog,           \* history: the response vector of each parent fetch of cmd
    fetchRes,           \* history: what get_spend returned for each parent fetch
    writeResp,          \* history: what storage.write answered for cmd
    evDispatched,       \* history: the event fan-out of cmd was dispatched
    sentCount,          \* history: requests dispatched to peers while handling cmd
    returned,           \* history: dbc id -> spends get_spend ever returned
    conflict,           \* history: a conflicting write reached an occupied address
    redKind,            \* SpecReduce: the reduction last applied
    redResponses,       \* SpecReduce: the response vector it was applied to
    redResult,          \* SpecReduce: what it returned
    inbox,              \* Node::run: requests waiting in network_event_receiver
    queryResp,          \* the response sent to the last inbound query handled
    sendPc,             \* send_and_get_responses: idle, select (awaiting select_all), done
    peers,              \* send_and_get_responses: the peers it was given
    get_all_responses,  \* send_and_get_responses: its flag
    list_of_futures,    \* send_and_get_responses: peers whose future is not done
    collected,          \* send_and_get_responses: its `responses` vector
    sendRet,            \* send_and_get_responses: the vector it returned
    sendFrom,           \* history: the peer behind each element of collected
    sendOutcome,        \* history: peer -> how its future ended
    replica,            \* SpecMerge: replica id -> Register
    seen,               \* SpecMerge history: replica id -> crdt nodes it was given
    merged,             \* SpecMerge history: replica id -> it merged another replica
    register,           \* ClientRegister: the local replica
    ops,                \* ClientRegister: the cached cmds, front first
    mayWrite,           \* ClientRegister: the client's key has write rights
    cpc,                \* ClientRegister: idle, or the await sync/push is suspended at
    inflight,           \* push: the cmd popped from ops and being published
    cret,               \* the result of the last call on the ClientRegister
    call,               \* history: the last call on the ClientRegister
    generated,          \* history: the cmds of the local writes, in generation order
    acked,              \* history: how many cmds push has taken off the queue for good
    cleanFrom,          \* history: all K peers took each of the cmds cleanFrom..acked
    failedAt,           \* history: index of the cmd the last failed push failed on
    syncClean,          \* history: all K peers answered Ok(()) to every cmd of this sync
    retry,              \* history: the cmd that failed was still queued when sync was called
    op,                 \* RegisterOp: address, crdt_op (hash of the node), source, signature
    signedOver,         \* history: the signer and the fields the signature was made over
    opCall,             \* history: the last call on the RegisterOp
    opRet,              \* what verify_signature returned last
    distA,              \* NetworkAddress::distance: self
    distB,              \* NetworkAddress::distance: other
    dist,               \* NetworkAddress::distance: what it returned
    runPc,              \* Node::run: the spawned loop is running ("loop") or has ended
    chanClosed,         \* every sender of network_event_receiver is gone
    closedSeen,         \* history: how often recv() has returned None
    nodeEvents,         \* the NodeEvents broadcast on events_channel
    handled,            \* history: the inbound event handled last, with the storage result
    sentResponses       \* history: the responses sent on its response channel

nodeVars == <<spendStore, doubleLog, pc, cmd, idx, all_parent_spends, request,
              contacted, pending, responses, delivered, channel, ret, fetchLog,
              fetchRes, writeResp, evDispatched, sentCount, returned, conflict>>
redVars == <<redKind, redResponses, redResult>>
loopVars == <<inbox, queryResp>>
sendVars == <<sendPc, peers, get_all_responses, list_of_futures, collected,
              sendRet, sendFrom, sendOutcome>>
mergeVars == <<replica, seen, merged>>
clientVars == <<register, ops, mayWrite, cpc, inflight, cret, call, generated,
                acked, cleanFrom, failedAt, syncClean, retry>>
opVars == <<op, signedOver, opCall, opRet>>
distVars == <<distA, distB, dist>>
runVars == <<runPc, chanClosed, closedSeen, nodeEvents, handled, sentResponses>>
moreVars == <<opVars, distVars, runVars>>
restVars == <<loopVars, sendVars, mergeVars, clientVars, moreVars>>
vars == <<nodeVars, redVars, restVars>>

----------------------------------------------------------------------------
(* Bounds *)

\* K, the network-wide close group size (network::CLOSE_GROUP_SIZE), scaled down.
CLOSE_GROUP_SIZE == 2

\* The longest response vector SpecReduce draws (longer than K, to reach ">= K").
MaxResponses == 3

----------------------------------------------------------------------------
(* Data *)

Self == 0
Peers == 1..CLOSE_GROUP_SIZE
Nodes == {Self} \cup Peers

ParentIds == {"p1", "p2"}
ChildId == "c"
DbcIds == ParentIds \cup {ChildId}

MkSpend(id, src, dst, amt) ==
    [dbc_id |-> id, src_tx_hash |-> src, dst_tx_hash |-> dst, blinded_amount |-> amt]

NoSpend == MkSpend("none", 0, 0, 0)

\* Two conflicting spends of p1 (they differ in the transaction that consumes p1).
P1a == MkSpend("p1", 9, 1, 1)
P1b == MkSpend("p1", 9, 2, 1)
\* Two spends of p2 that differ in the blinded amount.
P2a == MkSpend("p2", 9, 1, 1)
P2b == MkSpend("p2", 9, 1, 2)
\* Two conflicting spends of c, both created in the transaction with hash 1.
S1 == MkSpend("c", 1, 3, 1)
S2 == MkSpend("c", 1, 4, 1)
\* A spend of c that names the transaction with hash 2 as its source.
S3 == MkSpend("c", 2, 5, 1)

ParentSpends == {P1a, P1b, P2a, P2b}
ChildSpends == {S1, S2, S3}

MkInput(id, amt) == [dbc_id |-> id, blinded_amount |-> amt]

\* DbcTransaction: its hash, its inputs and the dbc ids of its outputs.  Tx1
\* creates c; Tx2 creates another dbc.
Tx1 == [hash |-> 1, inputs |-> <<MkInput("p1", 1), MkInput("p2", 1)>>,
        outputs |-> {"c"}]
Tx2 == [hash |-> 2, inputs |-> <<MkInput("p1", 1)>>, outputs |-> {"o"}]
Txs == {Tx1, Tx2}

NoTx == [hash |-> 0, inputs |-> <<>>, outputs |-> {}]
NoCmd == [signed_spend |-> NoSpend, source_tx |-> NoTx]

\* dbc_address: the address of a spend is a deterministic name of the dbc id.
dbc_address(id) == <<"DbcAddress", id>>
AddressId(address) == address[2]

\* ProtocolError and the transport errors, as one record shape.
MkError(name, h1, h2, new, existing) ==
    [name |-> name, h1 |-> h1, h2 |-> h2, new |-> new, existing |-> existing]
PErr(name) == MkError(name, 0, 0, NoSpend, NoSpend)
NoError == PErr("none")
UnexpectedResponses == PErr("UnexpectedResponses")
DoubleSpendAttempt(new, existing) == MkError("DoubleSpendAttempt", 0, 0, new, existing)

\* Result<Response>: ok is the transport-level outcome; for ok = TRUE, kind is the
\* response variant and res whether its inner Result is Ok or Err.
MkResp(ok, kind, res, spend, reg, err) ==
    [ok |-> ok, kind |-> kind, res |-> res, spend |-> spend, reg |-> reg, err |-> err]
SpendOk(s) == MkResp(TRUE, "GetDbcSpend", "Ok", s, 0, NoError)
SpendErr(e) == MkResp(TRUE, "GetDbcSpend", "Err", NoSpend, 0, e)
RegisterOk(r) == MkResp(TRUE, "GetRegister", "Ok", NoSpend, r, NoError)
RegisterErr(e) == MkResp(TRUE, "GetRegister", "Err", NoSpend, 0, e)
CmdOk(kind) == MkResp(TRUE, kind, "Ok", NoSpend, 0, NoError)
CmdErr(kind, e) == MkResp(TRUE, kind, "Err", NoSpend, 0, e)
NetworkErr == MkResp(FALSE, "none", "none", NoSpend, 0, PErr("Network"))
ResponseTimeout == MkResp(FALSE, "none", "none", NoSpend, 0, PErr("ResponseTimeout"))

\* The Result a reduction returns: class is Ok, Protocol (a protocol error) or
\* Other (a transport error, a timeout, a failed lookup).
MkResult(class, spend, reg, err) ==
    [class |-> class, spend |-> spend, reg |-> reg, err |-> err]
ResOk == MkResult("Ok", NoSpend, 0, NoError)
ResSpend(s) == MkResult("Ok", s, 0, NoError)
ResRegister(r) == MkResult("Ok", NoSpend, r, NoError)
ResProtocol(e) == MkResult("Protocol", NoSpend, 0, e)
ResOther(e) == MkResult("Other", NoSpend, 0, e)
NoResult == MkResult("none", NoSpend, 0, NoError)
LookupFailed == ResOther(PErr("ClosestPeersLookup"))

Range(s) == {s[i] : i \in DOMAIN s}

----------------------------------------------------------------------------
(* Close-group reductions *)

IsOkOf(r, kind) == r.ok /\ r.kind = kind /\ r.res = "Ok"
IsErrOf(r, kind) == r.ok /\ r.kind = kind /\ r.res = "Err"

\* `for resp in responses.iter().flatten()` looking for the first response of
\* the expected kind whose inner result is an error: its index, 0 when none.
RECURSIVE ScanExpected(_, _, _)
ScanExpected(resps, kind, i) ==
    IF i > Len(resps) THEN 0
    ELSE IF IsErrOf(resps[i], kind) THEN i
    ELSE ScanExpected(resps, kind, i + 1)

\* `for resp in responses { resp? }`: the index of the first send error, 0 when none.
RECURSIVE ScanSendErrors(_, _)
ScanSendErrors(resps, i) ==
    IF i > Len(resps) THEN 0
    ELSE IF ~resps[i].ok THEN i
    ELSE ScanSendErrors(resps, i + 1)

\* The first register among the responses: its index, 0 when none.
RECURSIVE ScanRegister(_, _)
ScanRegister(resps, i) ==
    IF i > Len(resps) THEN 0
    ELSE IF IsOkOf(resps[i], "GetRegister") THEN i
    ELSE ScanRegister(resps, i + 1)

\* The successful spends of a response vector, in response order.
RECURSIVE CollectSpends(_, _)
CollectSpends(resps, i) ==
    IF i > Len(resps) THEN <<>>
    ELSE IF IsOkOf(resps[i], "GetDbcSpend")
         THEN <<resps[i].spend>> \o CollectSpends(resps, i + 1)
         ELSE CollectSpends(resps, i + 1)

\* Node::get_spend after send_to_closest returned `resps`.  Three variants come
\* first: SpendsMayDiffer drops the uniqueness test, AnyOneSpend the threshold
\* of K successes, and SendErrorsFirst scans send errors before protocol errors.
SpendsMayDiffer(resps) ==
    LET spends == CollectSpends(resps, 1)
        e == ScanExpected(resps, "GetDbcSpend", 1)
        n == ScanSendErrors(resps, 1)
    IN  IF Len(spends) >= CLOSE_GROUP_SIZE
        THEN ResSpend(spends[1])
        ELSE IF e > 0 THEN ResProtocol(resps[e].err)
        ELSE IF n > 0 THEN ResOther(resps[n].err)
        ELSE ResProtocol(UnexpectedResponses)

AnyOneSpend(resps) ==
    LET spends == CollectSpends(resps, 1)
        e == ScanExpected(resps, "GetDbcSpend", 1)
        n == ScanSendErrors(resps, 1)
    IN  IF Len(spends) >= 1 /\ Cardinality(Range(spends)) = 1
        THEN ResSpend(spends[1])
        ELSE IF e > 0 THEN ResProtocol(resps[e].err)
        ELSE IF n > 0 THEN ResOther(resps[n].err)
        ELSE ResProtocol(UnexpectedResponses)

SendErrorsFirst(resps) ==
    LET spends == CollectSpends(resps, 1)
        e == ScanExpected(resps, "GetDbcSpend", 1)
        n == ScanSendErrors(resps, 1)
    IN  IF Len(spends) >= CLOSE_GROUP_SIZE /\ Cardinality(Range(spends)) = 1
        THEN ResSpend(spends[1])
        ELSE IF n > 0 THEN ResOther(resps[n].err)
        ELSE IF e > 0 THEN ResProtocol(resps[e].err)
        ELSE ResProtocol(UnexpectedResponses)

get_spend_reduce(resps) ==
    LET spends == CollectSpends(resps, 1)
        e == ScanExpected(resps, "GetDbcSpend", 1)
        n == ScanSendErrors(resps, 1)
    IN  IF Len(spends) >= CLOSE_GROUP_SIZE /\ Cardinality(Range(spends)) = 1
        THEN ResSpend(spends[1])
        ELSE IF e > 0 THEN ResProtocol(resps[e].err)
        ELSE IF n > 0 THEN ResOther(resps[n].err)
        ELSE ResProtocol(UnexpectedResponses)

\* ClientRegister::publish_register_create after send_to_closest returned `resps`.
publish_register_create_reduce(resps) ==
    LET all_ok == \A i \in DOMAIN resps : IsOkOf(resps[i], "CreateRegister")
        e == ScanExpected(resps, "CreateRegister", 1)
        n == ScanSendErrors(resps, 1)
    IN  IF all_ok THEN ResOk
        ELSE IF e > 0 THEN ResProtocol(resps[e].err)
        ELSE IF n > 0 THEN ResOther(resps[n].err)
        ELSE ResOther(UnexpectedResponses)

\* ClientRegister::publish_register_edit after send_to_closest returned `resps`.
publish_register_edit_reduce(resps) ==
    LET all_ok == \A i \in DOMAIN resps : IsOkOf(resps[i], "EditRegister")
        e == ScanExpected(resps, "EditRegister", 1)
        n == ScanSendErrors(resps, 1)
    IN  IF all_ok THEN ResOk
        ELSE IF e > 0 THEN ResProtocol(resps[e].err)
        ELSE IF n > 0 THEN ResOther(resps[n].err)
        ELSE ResOther(UnexpectedResponses)

\* ClientRegister::get_register after send_to_closest returned `resps`.
\* ErrorBeforeRegister is the variant that lets a peer's error win over a
\* register of a later peer.
ErrorBeforeRegister(resps) ==
    LET g == ScanRegister(resps, 1)
        e == ScanExpected(resps, "GetRegister", 1)
        n == ScanSendErrors(resps, 1)
    IN  IF g > 0 /\ (e = 0 \/ g < e) THEN ResRegister(resps[g].reg)
        ELSE IF e > 0 THEN ResProtocol(resps[e].err)
        ELSE IF n > 0 THEN ResOther(resps[n].err)
        ELSE ResOther(UnexpectedResponses)

get_register_reduce(resps) ==
    LET g == ScanRegister(resps, 1)
        e == ScanExpected(resps, "GetRegister", 1)
        n == ScanSendErrors(resps, 1)
    IN  IF g > 0 THEN ResRegister(resps[g].reg)
        ELSE IF e > 0 THEN ResProtocol(resps[e].err)
        ELSE IF n > 0 THEN ResOther(resps[n].err)
        ELSE ResOther(UnexpectedResponses)

\* The responses a peer, or the transport, can contribute to a response vector.
Alphabet ==
    {SpendOk(P1a), SpendOk(P1b), SpendErr(PErr("SpendNotFound")),
     SpendErr(PErr("InvalidSignature")),
     CmdOk("CreateRegister"), CmdErr("CreateRegister", PErr("AccessDenied")),
     CmdErr("CreateRegister", PErr("InvalidSignature")),
     CmdOk("EditRegister"), CmdErr("EditRegister", PErr("AccessDenied")),
     CmdErr("EditRegister", PErr("MissingSignature")),
     RegisterOk(1), RegisterOk(2), RegisterErr(PErr("AccessDenied")),
     RegisterErr(PErr("ContentBranchDetected")),
     NetworkErr, ResponseTimeout}

ResponseVectors == UNION {[1..n -> Alphabet] : n \in 0..MaxResponses}

ReductionKinds == {"GetDbcSpend", "CreateRegister", "EditRegister", "GetRegister"}

----------------------------------------------------------------------------
(* Register CRDT (sn_registers::Register): a Merkle DAG of entries kept as  *)
(* a map from node hash to node.                                            *)

Entries == {"a", "b", "c"}

\* A node of the DAG: the entry and the hashes of the entries it is written atop.
MkNode(entry, parents) == [entry |-> entry, parents |-> parents]

\* The hash of a node covers its entry and its parents; it is taken to be
\* collision free.
entry_hash(node) == <<node.entry, node.parents>>

\* Register::new: no entry.
EmptyRegister == <<>>

\* The register holding exactly the nodes of the set S.
RegisterOf(S) == [h \in {entry_hash(n) : n \in S} |->
                     CHOOSE n \in S : entry_hash(n) = h]
NodesOf(reg) == {reg[h] : h \in DOMAIN reg}

\* Register::read: the frontier, the (hash, entry) pairs of the nodes that no
\* other node names as a parent.
read(reg) ==
    {<<h, reg[h].entry>> : h \in {k \in DOMAIN reg :
                                     \A o \in DOMAIN reg : k \notin reg[o].parents}}
FrontierHashes(reg) == {e[1] : e \in read(reg)}

\* Register::write(entry, children): a new node atop `children`; a node that is
\* already there is absorbed.  WriteReplaces is the variant that keeps only the
\* new node.
WriteReplaces(reg, entry, children) ==
    LET node == MkNode(entry, children)
    IN  [k \in {entry_hash(node)} |-> node]

register_write(reg, entry, children) ==
    LET node == MkNode(entry, children)
        h == entry_hash(node)
    IN  [k \in DOMAIN reg \cup {h} |-> IF k \in DOMAIN reg THEN reg[k] ELSE node]

\* Register::merge(other): the union of the two DAGs keyed by node hash.
\* KeepOther is the variant that replaces the replica by the other one.
KeepOther(reg, other) == other

merge(reg, other) ==
    [k \in DOMAIN reg \cup DOMAIN other |->
        IF k \in DOMAIN reg THEN reg[k] ELSE other[k]]

----------------------------------------------------------------------------
(* Storage facade (DataStorage), per node *)

\* DataStorage::write of a Cmd::Dbc on the spend store `store` of one node:
\* the first write wins, the same spend again is accepted, a different spend
\* for an occupied address is answered DoubleSpendAttempt and changes nothing.
StorageWriteSpend(store, spend) ==
    IF store[spend.dbc_id] = NoSpend
    THEN [store |-> [store EXCEPT ![spend.dbc_id] = spend], resp |-> ResOk]
    ELSE IF store[spend.dbc_id] = spend
    THEN [store |-> store, resp |-> ResOk]
    ELSE [store |-> store,
          resp |-> ResProtocol(DoubleSpendAttempt(spend, store[spend.dbc_id]))]

\* DataStorage::read of a Query::GetDbcSpend(address).
StorageReadSpend(store, address) ==
    IF store[AddressId(address)] = NoSpend
    THEN SpendErr(PErr("SpendNotFound"))
    ELSE SpendOk(store[AddressId(address)])

\* DataStorage::try_add_double: records the pair of two different spends of one
\* dbc id in the log of known double spends.
try_add_double(log, a, b) ==
    IF a # b /\ a.dbc_id = b.dbc_id THEN log \cup {<<a, b>>} ELSE log

----------------------------------------------------------------------------
(* Requests *)

MkRequest(kind, address, a, b) == [kind |-> kind, address |-> address, a |-> a, b |-> b]
NoRequest == MkRequest("none", dbc_address("none"), NoSpend, NoSpend)
GetDbcSpendQuery(address) == MkRequest("GetDbcSpend", address, NoSpend, NoSpend)
\* Event::double_spend_attempt(new, existing); its destination is the spend's address.
DoubleSpendAttempted(new, existing) ==
    MkRequest("DoubleSpendAttempted", dbc_address(new.dbc_id), new, existing)

----------------------------------------------------------------------------
(* Spend validation: pure parts *)

IdRank(id) == CASE id = "p1" -> 1 [] id = "p2" -> 2 [] OTHER -> 3

\* The order of the BTreeSet of parent spends.
Before(s, t) ==
    \/ IdRank(s.dbc_id) < IdRank(t.dbc_id)
    \/ /\ s.dbc_id = t.dbc_id
       /\ \/ s.dst_tx_hash < t.dst_tx_hash
          \/ s.dst_tx_hash = t.dst_tx_hash /\ s.blinded_amount < t.blinded_amount

\* known_parent_blinded_amounts: the amounts of the parents, in set order.
known_parent_blinded_amounts(parents) ==
    [i \in 1..Cardinality(parents) |->
        (CHOOSE s \in parents : Cardinality({t \in parents : Before(t, s)}) = i - 1)
            .blinded_amount]

\* DbcTransaction::verify: the transaction verifies under exactly the blinded
\* amounts its inputs commit to.
verify(tx, amounts) ==
    amounts = [i \in DOMAIN tx.inputs |-> tx.inputs[i].blinded_amount]

HashMismatch(ss, tx) ==
    MkError("SignedSrcTxHashDoesNotMatchProvidedSrcTxHash",
            ss.src_tx_hash, tx.hash, NoSpend, NoSpend)
ParentMismatch(ss, parent) ==
    MkError("SpendSrcTxHashParentTxHashMismatch",
            ss.src_tx_hash, parent.dst_tx_hash, NoSpend, NoSpend)
InvalidSourceTx(ss, tx) ==
    MkError("InvalidSourceTxProvided", ss.src_tx_hash, tx.hash, NoSpend, NoSpend)

MkDecision(next, err, parents) == [next |-> next, err |-> err, parents |-> parents]

\* One round of the loop of validate_spend_parents once get_spend returned `res`
\* for input i, with what add_if_valid does with the outcome:
\*   respond  answer the client with err and return Ok(())
\*   fail     return the error without answering
\*   fetch    fetch the next input's parent
\*   write    all parents check out: go on to storage.write
\* NoVerify is the round without the source_tx.verify step.
NoVerify(ss, tx, i, parents, res) ==
    IF res.class = "Protocol" THEN MkDecision("respond", res.err, parents)
    ELSE IF res.class = "Other" THEN MkDecision("fail", res.err, parents)
    ELSE IF ss.src_tx_hash # res.spend.dst_tx_hash
    THEN MkDecision("respond", ParentMismatch(ss, res.spend), parents)
    ELSE IF i < Len(tx.inputs)
    THEN MkDecision("fetch", NoError, parents \cup {res.spend})
    ELSE MkDecision("write", NoError, parents \cup {res.spend})

validate_spend_parents_round(ss, tx, i, parents, res) ==
    IF res.class = "Protocol" THEN MkDecision("respond", res.err, parents)
    ELSE IF res.class = "Other" THEN MkDecision("fail", res.err, parents)
    ELSE IF ss.src_tx_hash # res.spend.dst_tx_hash
    THEN MkDecision("respond", ParentMismatch(ss, res.spend), parents)
    ELSE IF i < Len(tx.inputs)
    THEN MkDecision("fetch", NoError, parents \cup {res.spend})
    ELSE IF ~verify(tx, known_parent_blinded_amounts(parents \cup {res.spend}))
    THEN MkDecision("respond", InvalidSourceTx(ss, tx), parents \cup {res.spend})
    ELSE MkDecision("write", NoError, parents \cup {res.spend})

\* add_if_valid, the match on the answer of storage.write: a DoubleSpendAttempt
\* is fanned out as an event and echoed, anything else is passed on.
\* SwapNewExisting echoes the two spends in the other order.
SwapNewExisting(resp) ==
    IF resp.class = "Protocol" /\ resp.err.name = "DoubleSpendAttempt"
    THEN [event |-> TRUE,
          response |-> ResProtocol(DoubleSpendAttempt(resp.err.existing, resp.err.new))]
    ELSE [event |-> FALSE, response |-> resp]

write_outcome(resp) ==
    IF resp.class = "Protocol" /\ resp.err.name = "DoubleSpendAttempt"
    THEN [event |-> TRUE,
          response |-> ResProtocol(DoubleSpendAttempt(resp.err.new, resp.err.existing))]
    ELSE [event |-> FALSE, response |-> resp]

\* node_get_closest_peers(address): the peers closest to the address, sorted by
\* distance, as the overlay may know them.  The close group of a parent is the
\* peers 1..K.  The node Self is in the close group of the child's address: the
\* overlay lists the K closest other peers, or the close group itself.
ClosestPeers(address) ==
    IF AddressId(address) \in ParentIds
    THEN {[i \in 1..CLOSE_GROUP_SIZE |-> i]}
    ELSE {[i \in 1..CLOSE_GROUP_SIZE |-> i], [i \in 1..CLOSE_GROUP_SIZE |-> i - 1]}

\* The close group of an address: the K nodes closest to it.
CloseGroup(address) ==
    IF AddressId(address) \in ParentIds
    THEN Peers
    ELSE {i - 1 : i \in 1..CLOSE_GROUP_SIZE}

----------------------------------------------------------------------------
(* The request handler of the node Self.  Node::run awaits each handler in  *)
(* its event loop, so Self handles one request at a time; the handler is    *)
(* split at its suspension points.                                          *)

IsQuery == request.kind = "GetDbcSpend"
IsEvent == request.kind = "DoubleSpendAttempted"

\* What add_if_valid does next, given the decision of the validation so far.
Proceed(d, ss, tx, i, wr) ==
    /\ all_parent_spends' = d.parents
    /\ CASE d.next = "respond" ->
              /\ channel' = ResProtocol(d.err)
              /\ ret' = "Ok"
              /\ pc' = "idle"
              /\ idx' = i
              /\ request' = NoRequest
              /\ writeResp' = wr
              /\ UNCHANGED spendStore
         [] d.next = "fail" ->
              /\ channel' = NoResult
              /\ ret' = "Err"
              /\ pc' = "idle"
              /\ idx' = i
              /\ request' = NoRequest
              /\ writeResp' = wr
              /\ UNCHANGED spendStore
         [] d.next = "fetch" ->
              /\ channel' = NoResult
              /\ ret' = "none"
              /\ pc' = "fetch_lookup"
              /\ idx' = i + 1
              /\ request' = GetDbcSpendQuery(dbc_address(tx.inputs[i + 1].dbc_id))
              /\ writeResp' = wr
              /\ UNCHANGED spendStore
         [] OTHER ->
              LET w == StorageWriteSpend(spendStore[Self], ss)
                  o == write_outcome(w.resp)
              IN  /\ spendStore' = [spendStore EXCEPT ![Self] = w.store]
                  /\ writeResp' = w.resp
                  /\ idx' = i
                  /\ IF o.event
                     THEN /\ channel' = NoResult
                          /\ ret' = "none"
                          /\ pc' = "event_lookup"
                          /\ request' = DoubleSpendAttempted(w.resp.err.new,
                                                             w.resp.err.existing)
                     ELSE /\ channel' = o.response
                          /\ ret' = "Ok"
                          /\ pc' = "idle"
                          /\ request' = NoRequest

\* add_if_valid up to its first suspension point.  NoHashCheck is the variant
\* without the comparison of the two hashes.
NoHashCheck(ss, tx) ==
    IF Len(tx.inputs) = 0
    THEN IF verify(tx, <<>>)
         THEN MkDecision("write", NoError, {})
         ELSE MkDecision("respond", InvalidSourceTx(ss, tx), {})
    ELSE MkDecision("fetch", NoError, {})

add_if_valid_entry(ss, tx) ==
    IF tx.hash # ss.src_tx_hash
    THEN MkDecision("respond", HashMismatch(ss, tx), {})
    ELSE IF Len(tx.inputs) = 0
    THEN IF verify(tx, <<>>)
         THEN MkDecision("write", NoError, {})
         ELSE MkDecision("respond", InvalidSourceTx(ss, tx), {})
    ELSE MkDecision("fetch", NoError, {})

\* A Cmd::Dbc{signed_spend, source_tx} is received and add_if_valid starts.
AddIfValid(ss, tx) ==
    /\ pc = "idle"
    /\ cmd' = [signed_spend |-> ss, source_tx |-> tx]
    /\ fetchLog' = <<>>
    /\ fetchRes' = <<>>
    /\ evDispatched' = FALSE
    /\ sentCount' = 0
    /\ contacted' = {}
    /\ pending' = {}
    /\ delivered' = {}
    /\ responses' = <<>>
    /\ LET d == add_if_valid_entry(ss, tx)
       IN  Proceed(d, ss, tx, 0, NoResult)
    /\ UNCHANGED <<doubleLog, returned, conflict, redVars, restVars>>

\* send_to_closest: node_get_closest_peers fails, and the `?`s carry the error
\* out of get_spend, validate_spend_parents and add_if_valid.
LookupFails ==
    /\ pc \in {"fetch_lookup", "event_lookup"}
    /\ pc' = "idle"
    /\ ret' = "Err"
    /\ IF pc = "fetch_lookup"
       THEN /\ fetchLog' = Append(fetchLog, <<>>)
            /\ fetchRes' = Append(fetchRes, LookupFailed)
       ELSE UNCHANGED <<fetchLog, fetchRes>>
    /\ UNCHANGED <<spendStore, doubleLog, cmd, idx, all_parent_spends, request,
                   contacted, pending, responses, delivered, channel, writeResp,
                   evDispatched, sentCount, returned, conflict, redVars, restVars>>

\* send_to_closest: the lookup returns the n closest peers and
\* send_and_get_responses sends the request to each of them.
LookupReturns(closest, n) ==
    /\ pc \in {"fetch_lookup", "event_lookup"}
    /\ closest \in ClosestPeers(request.address)
    /\ n \in 0..CLOSE_GROUP_SIZE
    /\ contacted' = {closest[i] : i \in 1..n}
    /\ pending' = {closest[i] : i \in 1..n}
    /\ delivered' = {}
    /\ responses' = <<>>
    /\ sentCount' = sentCount + n
    /\ evDispatched' = (evDispatched \/ (IsEvent /\ n > 0))
    /\ pc' = IF pc = "fetch_lookup" THEN "fetch_collect" ELSE "event_collect"
    /\ UNCHANGED <<spendStore, doubleLog, cmd, idx, all_parent_spends, request,
                   channel, ret, fetchLog, fetchRes, writeResp, returned, conflict,
                   redVars, restVars>>

\* The peer p handles the query (handle_request: storage.read, send_response)
\* and its response arrives.
PeerAnswers(p) ==
    /\ pc = "fetch_collect"
    /\ p \in pending
    /\ p # Self
    /\ responses' = Append(responses, StorageReadSpend(spendStore[p], request.address))
    /\ pending' = pending \ {p}
    /\ delivered' = delivered \cup {p}
    /\ UNCHANGED <<spendStore, doubleLog, pc, cmd, idx, all_parent_spends, request,
                   contacted, channel, ret, fetchLog, fetchRes, writeResp,
                   evDispatched, sentCount, returned, conflict, redVars, restVars>>

\* The peer p handles the event (handle_request: try_add_double); it sends no
\* response, so the sender's future stays pending until it fails or times out.
PeerHandlesEvent(p) ==
    /\ pc = "event_collect"
    /\ p \in pending \ delivered
    /\ p # Self
    /\ doubleLog' = [doubleLog EXCEPT ![p] = try_add_double(@, request.a, request.b)]
    /\ delivered' = delivered \cup {p}
    /\ UNCHANGED <<spendStore, pc, cmd, idx, all_parent_spends, request, contacted,
                   pending, responses, channel, ret, fetchLog, fetchRes, writeResp,
                   evDispatched, sentCount, returned, conflict, redVars, restVars>>

\* send_and_get_responses: the request to p ends in a transport error.
SendFails(p) ==
    /\ pc \in {"fetch_collect", "event_collect"}
    /\ p \in pending
    /\ responses' = Append(responses, NetworkErr)
    /\ pending' = pending \ {p}
    /\ UNCHANGED <<spendStore, doubleLog, pc, cmd, idx, all_parent_spends, request,
                   contacted, delivered, channel, ret, fetchLog, fetchRes, writeResp,
                   evDispatched, sentCount, returned, conflict, redVars, restVars>>

\* send_and_get_responses: the request to p runs into the per-peer timeout.
\* NoTimeout is the variant without tokio::time::timeout around send_request:
\* the future of a peer that does not answer stays pending.
NoTimeout(p) ==
    /\ pc \in {"fetch_collect", "event_collect"}
    /\ p \in pending
    /\ UNCHANGED vars

TimesOut(p) ==
    /\ pc \in {"fetch_collect", "event_collect"}
    /\ p \in pending
    /\ responses' = Append(responses, ResponseTimeout)
    /\ pending' = pending \ {p}
    /\ UNCHANGED <<spendStore, doubleLog, pc, cmd, idx, all_parent_spends, request,
                   contacted, delivered, channel, ret, fetchLog, fetchRes, writeResp,
                   evDispatched, sentCount, returned, conflict, redVars, restVars>>

\* All responses of a parent fetch are in: get_spend reduces them and
\* validate_spend_parents / add_if_valid go on to their next suspension point.
FetchCompletes ==
    /\ pc = "fetch_collect"
    /\ pending = {}
    /\ LET res == get_spend_reduce(responses)
           ss == cmd.signed_spend
           tx == cmd.source_tx
       IN  /\ fetchLog' = Append(fetchLog, responses)
           /\ fetchRes' = Append(fetchRes, res)
           /\ returned' = IF res.class = "Ok"
                          THEN [returned EXCEPT ![AddressId(request.address)] =
                                    @ \cup {res.spend}]
                          ELSE returned
           /\ Proceed(validate_spend_parents_round(ss, tx, idx, all_parent_spends, res),
                      ss, tx, idx, writeResp)
    /\ responses' = <<>>
    /\ UNCHANGED <<doubleLog, cmd, contacted, pending, delivered, evDispatched,
                   sentCount, conflict, redVars, restVars>>

\* All futures of the event fan-out are done: the DoubleSpendAttempt is echoed
\* to the client.
EventCompletes ==
    /\ pc = "event_collect"
    /\ pending = {}
    /\ channel' = write_outcome(writeResp).response
    /\ ret' = "Ok"
    /\ pc' = "idle"
    /\ UNCHANGED <<spendStore, doubleLog, cmd, idx, all_parent_spends, request,
                   contacted, pending, responses, delivered, fetchLog, fetchRes,
                   writeResp, evDispatched, sentCount, returned, conflict, redVars, restVars>>

\* A spend of a parent reaches the peer p of the parent's close group and is
\* written to its spend store.
WriteParent(p, s) ==
    /\ p \in Peers
    /\ s \in {P1a, P1b}
    /\ LET w == StorageWriteSpend(spendStore[p], s)
       IN  /\ spendStore' = [spendStore EXCEPT ![p] = w.store]
           /\ conflict' = (conflict \/ w.resp.class # "Ok")
    /\ UNCHANGED <<doubleLog, pc, cmd, idx, all_parent_spends, request, contacted,
                   pending, responses, delivered, channel, ret, fetchLog, fetchRes,
                   writeResp, evDispatched, sentCount, returned, redVars, restVars>>

----------------------------------------------------------------------------
(* Specifications *)

EmptyStore == [id \in DbcIds |-> NoSpend]
PeerStore(a, b) ==
    [id \in DbcIds |-> CASE id = "p1" -> a [] id = "p2" -> b [] OTHER -> NoSpend]

\* What the stores of the parents' close group may hold when the node starts.
InitialStores ==
    {[n \in Nodes |-> IF n = Self THEN EmptyStore ELSE f[n]] :
        f \in [Peers -> {PeerStore(a, b) : a \in {NoSpend, P1a, P1b}, b \in {P2a, P2b}}]}

InitHandler ==
    /\ doubleLog = [n \in Nodes |-> {}]
    /\ pc = "idle"
    /\ cmd = NoCmd
    /\ idx = 0
    /\ all_parent_spends = {}
    /\ request = NoRequest
    /\ contacted = {}
    /\ pending = {}
    /\ responses = <<>>
    /\ delivered = {}
    /\ channel = NoResult
    /\ ret = "none"
    /\ fetchLog = <<>>
    /\ fetchRes = <<>>
    /\ writeResp = NoResult
    /\ evDispatched = FALSE
    /\ sentCount = 0
    /\ returned = [id \in ParentIds |-> {}]
    /\ conflict = FALSE

InitNoReduce ==
    /\ redKind = "none"
    /\ redResponses = <<>>
    /\ redResult = NoResult

\* No request waits at the node and no query was answered yet.
InitNoLoop ==
    /\ inbox = <<>>
    /\ queryResp = NoResult

\* How the future of one peer ends: send_request completed with a response or
\* with a network error before the timer, or the timer elapsed first.
MkOutcome(timer, res) == [timer |-> timer, res |-> res]
NoOutcome == MkOutcome("pending", NetworkErr)

\* The most peers send_and_get_responses is given.
MaxPeers == 3
SendPeers == 1..MaxPeers

\* send_and_get_responses has not been called.
InitNoSend ==
    /\ sendPc = "idle"
    /\ peers = {}
    /\ get_all_responses = TRUE
    /\ list_of_futures = {}
    /\ collected = <<>>
    /\ sendRet = <<>>
    /\ sendFrom = <<>>
    /\ sendOutcome = [p \in SendPeers |-> NoOutcome]

\* The replicas of SpecMerge, all empty.
ReplicaIds == 1..3
InitNoMerge ==
    /\ replica = [i \in ReplicaIds |-> <<>>]
    /\ seen = [i \in ReplicaIds |-> {}]
    /\ merged = [i \in ReplicaIds |-> FALSE]

\* RegisterCmd: Create, or Edit carrying the op of one crdt node.
CreateCmd == [kind |-> "Create", node |-> MkNode("none", {})]
EditCmd(node) == [kind |-> "Edit", node |-> node]
NoRegisterCmd == [kind |-> "none", node |-> MkNode("none", {})]

MkCall(name, entry) == [name |-> name, entry |-> entry]

\* ClientRegister::new: an empty replica and an empty queue.
InitClientIdle ==
    /\ register = EmptyRegister
    /\ ops = <<>>
    /\ cpc = "idle"
    /\ inflight = NoRegisterCmd
    /\ cret = "none"
    /\ call = MkCall("new", "none")
    /\ generated = <<>>
    /\ acked = 0
    /\ cleanFrom = 1
    /\ failedAt = 0
    /\ syncClean = FALSE
    /\ retry = FALSE

InitNoClient == InitClientIdle /\ mayWrite = TRUE

\* RegisterOp (sn_registers/src/register_op.rs).  Addresses and crdt nodes are
\* numbered; a source is User::Anyone or User::Key(pk); the public key and the
\* secret key of one pair bear the same name.
OpAddresses == {0, 1}
OpNodes == {0, 1}
Keys == {"k1", "k2"}
Anyone == "Anyone"
UserKey(pk) == pk
Users == {Anyone} \cup {UserKey(pk) : pk \in Keys}
UserCode(user) == IF user = Anyone THEN 0 ELSE IF user = "k1" THEN 1 ELSE 2

\* The width of the value DefaultHasher::finish returns (a u64), scaled down.
HashBits == 3

\* DefaultHasher fed with address, crdt_op.hash() and source, then finish():
\* a function of the three onto the values of HashBits bits.
hash_value(address, crdt_op, source) ==
    (3 * address + 5 * crdt_op + 7 * UserCode(source)) % (2 ^ HashBits)

\* bls: SecretKey::sign and PublicKey::verify.  A signature verifies under the
\* public key of its signer for the bytes it was made over, and for no other.
NoSignature == [signer |-> "none", bytes |-> 0]
sign(sk, bytes) == [signer |-> sk, bytes |-> bytes]
pk_verify(pk, sig, bytes) == sig.signer = pk /\ sig.bytes = bytes

\* RegisterOp::new.
MkOp(address, crdt_op, source, signature) ==
    [address |-> address, crdt_op |-> crdt_op, source |-> source,
     signature |-> signature]

\* RegisterOp::bytes_for_signing.  BytesWithoutSource is the variant that
\* leaves the source out of the hash.
BytesWithoutSource(o) == hash_value(o.address, o.crdt_op, Anyone)

bytes_for_signing(o) == hash_value(o.address, o.crdt_op, o.source)

\* RegisterOp::sign_with(sk).
sign_with(o, sk) ==
    LET sourced == [o EXCEPT !.source = UserKey(sk)]
    IN  [sourced EXCEPT !.signature = sign(sk, bytes_for_signing(sourced))]

\* RegisterOp::add_signature(public_key, signature).
add_signature(o, public_key, signature) ==
    [o EXCEPT !.source = UserKey(public_key), !.signature = signature]

\* RegisterOp::verify_signature(pk).
verify_signature(o, pk) ==
    IF o.signature = NoSignature
    THEN "MissingSignature"
    ELSE IF ~pk_verify(pk, o.signature, bytes_for_signing(o))
    THEN "InvalidSignature"
    ELSE "Ok"

\* The signer of a signature and the fields of the op it signed.
MkSigned(signer, o) ==
    [signer |-> signer, address |-> o.address, crdt_op |-> o.crdt_op,
     source |-> o.source]
NotSigned == [signer |-> "none", address |-> 0, crdt_op |-> 0, source |-> Anyone]
MkOpCall(name, pk) == [name |-> name, pk |-> pk]

InitNoOp ==
    /\ op = MkOp(0, 0, Anyone, NoSignature)
    /\ signedOver = NotSigned
    /\ opCall = MkOpCall("none", "none")
    /\ opRet = "none"

\* NetworkAddress (sn_protocol/src/lib.rs): the five kinds.  name stands for
\* the bytes of a PeerId or RecordKey, or for the xorname of a chunk, dbc or
\* register address; a register address also has a tag.
AddressKinds == {"PeerId", "ChunkAddress", "DbcAddress", "RegisterAddress", "RecordKey"}
AddressNames == {0, 1, 2}
MkAddress(kind, name, tag) == [kind |-> kind, name |-> name, tag |-> tag]
NetworkAddresses ==
    {MkAddress(k, n, 0) : k \in AddressKinds, n \in AddressNames}
        \cup {MkAddress("RegisterAddress", n, 1) : n \in AddressNames}
NoAddress == MkAddress("none", 0, 0)

\* NetworkAddress::as_bytes: the bytes, or the xorname of the address.
as_bytes(a) == a.name

\* The width of a KBucketKey (256 bits), scaled down.
KeyBits == 3

\* KBucketKey::new: the SHA256 hash of the bytes.
as_kbucket_key(a) == (5 * as_bytes(a) + 3) % (2 ^ KeyBits)

\* The XOR of two keys, bit by bit.
RECURSIVE Xor(_, _)
Xor(x, y) ==
    IF x = 0 /\ y = 0 THEN 0
    ELSE (((x % 2) + (y % 2)) % 2) + 2 * Xor(x \div 2, y \div 2)

\* NetworkAddress::distance.  DistanceToBytes is the variant that takes the
\* other address by its bytes, unhashed.
DistanceToBytes(a, other) == Xor(as_kbucket_key(a), as_bytes(other))

distance(a, other) == Xor(as_kbucket_key(a), as_kbucket_key(other))

InitNoDist ==
    /\ distA = NoAddress
    /\ distB = NoAddress
    /\ dist = -1

\* The inbound event handled last and what the storage answered to it.
MkHandled(req, res) == [req |-> req, res |-> res]

InitNoRun ==
    /\ runPc = "loop"
    /\ chanClosed = FALSE
    /\ closedSeen = 0
    /\ nodeEvents = {}
    /\ handled = MkHandled(NoRequest, NoResult)
    /\ sentResponses = <<>>

InitNoMore == InitNoOp /\ InitNoDist /\ InitNoRun

InitRest == InitNoLoop /\ InitNoSend /\ InitNoMerge /\ InitNoClient /\ InitNoMore

Init ==
    /\ spendStore \in InitialStores
    /\ InitHandler
    /\ InitNoReduce
    /\ InitRest

Next ==
    \/ \E ss \in ChildSpends, tx \in Txs : AddIfValid(ss, tx)
    \/ LookupFails
    \/ \E closest \in ClosestPeers(request.address), n \in 0..CLOSE_GROUP_SIZE :
          LookupReturns(closest, n)
    \/ \E p \in Peers : PeerAnswers(p)
    \/ \E p \in Peers : PeerHandlesEvent(p)
    \/ \E p \in Nodes : SendFails(p)
    \/ \E p \in Nodes : TimesOut(p)
    \/ FetchCompletes
    \/ EventCompletes

Spec == Init /\ [][Next]_vars

InitGet ==
    /\ spendStore = [n \in Nodes |-> IF n = Self THEN EmptyStore
                                     ELSE PeerStore(NoSpend, P2a)]
    /\ InitHandler
    /\ InitNoReduce
    /\ InitRest

NextGet ==
    \/ Next
    \/ \E p \in Peers, s \in {P1a, P1b} : WriteParent(p, s)

SpecGet == InitGet /\ [][NextGet]_vars

\* SpecReduce: each reduction applied to the response vector drawn at Init.
ApplyGetSpend ==
    /\ redKind = "GetDbcSpend"
    /\ redResult = NoResult
    /\ redResult' = get_spend_reduce(redResponses)
    /\ UNCHANGED <<nodeVars, moreVars, restVars, redKind, redResponses>>

ApplyPublishCreate ==
    /\ redKind = "CreateRegister"
    /\ redResult = NoResult
    /\ redResult' = publish_register_create_reduce(redResponses)
    /\ UNCHANGED <<nodeVars, moreVars, restVars, redKind, redResponses>>

ApplyPublishEdit ==
    /\ redKind = "EditRegister"
    /\ redResult = NoResult
    /\ redResult' = publish_register_edit_reduce(redResponses)
    /\ UNCHANGED <<nodeVars, moreVars, restVars, redKind, redResponses>>

ApplyGetRegister ==
    /\ redKind = "GetRegister"
    /\ redResult = NoResult
    /\ redResult' = get_register_reduce(redResponses)
    /\ UNCHANGED <<nodeVars, moreVars, restVars, redKind, redResponses>>

InitReduce ==
    /\ spendStore = [n \in Nodes |-> EmptyStore]
    /\ InitHandler
    /\ redKind \in ReductionKinds
    /\ redResponses \in ResponseVectors
    /\ redResult = NoResult
    /\ InitRest

NextReduce ==
    \/ ApplyGetSpend
    \/ ApplyPublishCreate
    \/ ApplyPublishEdit
    \/ ApplyGetRegister

SpecReduce == InitReduce /\ [][NextReduce]_vars

----------------------------------------------------------------------------
(* The event loop of Node::run: every NetworkEvent is taken from the       *)
(* receiver and handled by `handle_network_event(event).await` inside the  *)
(* loop, so the next event is received only after the handler returned.    *)

\* The most requests that wait in network_event_receiver at once.
MaxInbox == 1

InboundQueries == {GetDbcSpendQuery(dbc_address(ChildId))}

\* A peer's query reaches the node: the swarm driver puts
\* NetworkEvent::RequestReceived into the channel the loop reads.
RequestArrives(q) ==
    /\ ~chanClosed
    /\ Len(inbox) < MaxInbox
    /\ inbox' = Append(inbox, q)
    /\ UNCHANGED <<nodeVars, moreVars, redVars, sendVars, mergeVars, clientVars, queryResp>>

\* Node::handle_request for the requests that are not Cmd::Dbc: what is sent
\* on the response channel, the double-spend log afterwards, and the result of
\* the storage call.  wres is what storage.write answers to a Cmd.
\* AnswersEvents is the variant that responds to an event as well.
AnswersEvents(req, store, log, wres) ==
    [responses |-> <<wres>>, log |-> log, res |-> wres]

handle_request(req, store, log, wres) ==
    CASE req.kind = "GetDbcSpend" ->
            LET resp == StorageReadSpend(store, req.address)
            IN  [responses |-> <<resp>>, log |-> log, res |-> resp]
      [] req.kind = "DoubleSpendAttempted" ->
            [responses |-> <<>>,
             log |-> try_add_double(log, req.a, req.b),
             res |-> IF try_add_double(log, req.a, req.b) = log
                     THEN CmdErr("DoubleSpendAttempted", PErr("NotADoubleSpend"))
                     ELSE CmdOk("DoubleSpendAttempted")]
      [] OTHER ->
            [responses |-> <<wres>>, log |-> log, res |-> wres]

\* The loop receives the next request and handle_request answers the query
\* (storage.read, send_response).  The loop is at recv() only when no handler
\* is running.
HandleQuery ==
    /\ pc = "idle"
    /\ inbox # <<>>
    /\ Head(inbox).kind = "GetDbcSpend"
    /\ LET h == handle_request(Head(inbox), spendStore[Self], doubleLog[Self], NoResult)
       IN  /\ queryResp' = h.responses[1]
           /\ handled' = MkHandled(Head(inbox), h.res)
           /\ sentResponses' = h.responses
    /\ inbox' = Tail(inbox)
    /\ UNCHANGED <<nodeVars, opVars, distVars, runPc, chanClosed, closedSeen, nodeEvents,
                   redVars, sendVars, mergeVars, clientVars>>

InitLoop ==
    /\ spendStore = [n \in Nodes |-> IF n = Self THEN EmptyStore
                                     ELSE PeerStore(P1a, P2a)]
    /\ InitHandler
    /\ InitNoReduce
    /\ InitRest

NextLoop ==
    \/ Next
    \/ \E q \in InboundQueries : RequestArrives(q)
    \/ HandleQuery

SpecLoop == InitLoop /\ [][NextLoop]_vars

----------------------------------------------------------------------------
(* Node::send_and_get_responses on its own, for both values of its flag *)

SendOutcomes ==
    {MkOutcome("completed", SpendOk(P1a)),
     MkOutcome("completed", SpendErr(PErr("SpendNotFound"))),
     MkOutcome("completed", NetworkErr),
     MkOutcome("elapsed", NetworkErr)}

\* What a future that ended with `out` contributes to the responses vector.
Contribution(out) == IF out.timer = "elapsed" THEN ResponseTimeout ELSE out.res

\* One round of the `while` loop once select_all yielded a future that ended
\* with `out`.  DropTimeouts forgets the peers that timed out;
\* KeepEarlierErrors returns the first success after the errors before it.
DropTimeouts(get_all, resps, out) ==
    IF out.timer = "completed"
    THEN IF ~get_all /\ out.res.ok
         THEN [return |-> TRUE, responses |-> <<out.res>>]
         ELSE [return |-> FALSE, responses |-> Append(resps, out.res)]
    ELSE [return |-> FALSE, responses |-> resps]

KeepEarlierErrors(get_all, resps, out) ==
    IF out.timer = "completed"
    THEN IF ~get_all /\ out.res.ok
         THEN [return |-> TRUE, responses |-> Append(resps, out.res)]
         ELSE [return |-> FALSE, responses |-> Append(resps, out.res)]
    ELSE [return |-> FALSE, responses |-> Append(resps, ResponseTimeout)]

select_all_round(get_all, resps, out) ==
    IF out.timer = "completed"
    THEN IF ~get_all /\ out.res.ok
         THEN [return |-> TRUE, responses |-> <<out.res>>]
         ELSE [return |-> FALSE, responses |-> Append(resps, out.res)]
    ELSE [return |-> FALSE, responses |-> Append(resps, ResponseTimeout)]

\* send_and_get_responses(ps, req, get_all) is called: one future per peer; with
\* no peer the loop is skipped and the empty vector is returned.
SendAndGetResponses(ps, get_all) ==
    /\ sendPc = "idle"
    /\ peers' = ps
    /\ get_all_responses' = get_all
    /\ list_of_futures' = ps
    /\ collected' = <<>>
    /\ sendFrom' = <<>>
    /\ sendRet' = <<>>
    /\ sendPc' = IF ps = {} THEN "done" ELSE "select"
    /\ UNCHANGED <<nodeVars, moreVars, redVars, loopVars, mergeVars, clientVars, sendOutcome>>

\* select_all yields the future of p, which ended with `out`; the function
\* returns at once on the first success when get_all_responses is false, and
\* when no future is left.
SelectAllYields(p, out) ==
    /\ sendPc = "select"
    /\ p \in list_of_futures
    /\ LET r == select_all_round(get_all_responses, collected, out)
           remaining_futures == list_of_futures \ {p}
           over == r.return \/ remaining_futures = {}
       IN  /\ collected' = r.responses
           /\ list_of_futures' = remaining_futures
           /\ sendFrom' = IF r.return THEN <<p>> ELSE Append(sendFrom, p)
           /\ sendOutcome' = [sendOutcome EXCEPT ![p] = out]
           /\ sendPc' = IF over THEN "done" ELSE "select"
           /\ sendRet' = IF over THEN r.responses ELSE sendRet
    /\ UNCHANGED <<nodeVars, moreVars, redVars, loopVars, mergeVars, clientVars,
                   peers, get_all_responses>>

InitSend ==
    /\ spendStore = [n \in Nodes |-> EmptyStore]
    /\ InitHandler
    /\ InitNoReduce
    /\ InitRest

NextSend ==
    \/ \E ps \in SUBSET SendPeers, get_all \in BOOLEAN : SendAndGetResponses(ps, get_all)
    \/ \E p \in SendPeers, out \in SendOutcomes : SelectAllYields(p, out)

\* Every future is a tokio timeout of ten seconds around send_request, so
\* select_all always yields one of the futures that are left.
SpecSend ==
    /\ InitSend
    /\ [][NextSend]_vars
    /\ WF_vars(\E p \in SendPeers, out \in SendOutcomes : SelectAllYields(p, out))

----------------------------------------------------------------------------
(* Replicas of one register that are given crdt nodes and merge each other *)

\* Two roots, a node atop both, and a node atop one of them.
Na == MkNode("a", {})
Nb == MkNode("b", {})
Nc == MkNode("c", {entry_hash(Na), entry_hash(Nb)})
Nd == MkNode("c", {entry_hash(Na)})
NodeUniverse == {Na, Nb, Nc, Nd}

\* The replica i applies the op that carries the crdt node n.
ApplyOp(i, n) ==
    /\ n \notin seen[i]
    /\ replica' = [replica EXCEPT ![i] = register_write(@, n.entry, n.parents)]
    /\ seen' = [seen EXCEPT ![i] = @ \cup {n}]
    /\ UNCHANGED <<nodeVars, moreVars, redVars, loopVars, sendVars, clientVars, merged>>

\* ClientRegister::sync, `self.register.merge(remote_replica)`: the replica i
\* merges the replica j.
MergeFrom(i, j) ==
    /\ i # j
    /\ replica' = [replica EXCEPT ![i] = merge(@, replica[j])]
    /\ seen' = [seen EXCEPT ![i] = @ \cup seen[j]]
    /\ merged' = [merged EXCEPT ![i] = TRUE]
    /\ UNCHANGED <<nodeVars, moreVars, redVars, loopVars, sendVars, clientVars>>

InitMerge ==
    /\ spendStore = [n \in Nodes |-> EmptyStore]
    /\ InitHandler
    /\ InitNoReduce
    /\ InitRest

NextMerge ==
    \/ \E i \in ReplicaIds, n \in NodeUniverse : ApplyOp(i, n)
    \/ \E i, j \in ReplicaIds : MergeFrom(i, j)

SpecMerge == InitMerge /\ [][NextMerge]_vars

----------------------------------------------------------------------------
(* ClientRegister: the local replica and its queue of cached cmds.  sync    *)
(* and push are split at their awaits; the responses of the close group are *)
(* drawn when the await returns.                                            *)

\* The most local writes that succeed on one ClientRegister.
MaxWrites == 3

\* LinkedList::push_front, pop_back and push_back on the queue, front first.
\* Two variants of push_back: DropFailed forgets the cmd, RequeueAtFront puts
\* it at the other end.
push_front(q, c) == <<c>> \o q
pop_back(q) == [cmd |-> q[Len(q)], ops |-> SubSeq(q, 1, Len(q) - 1)]
DropFailed(q, c) == q

RequeueAtFront(q, c) == <<c>> \o q

push_back(q, c) == Append(q, c)

MkWritten(res, reg, q) == [res |-> res, register |-> reg, ops |-> q]

\* ClientRegister::write_atop: the rights check, Register::write, push_front.
\* WriteUnchecked is the variant without the rights check.
WriteUnchecked(reg, q, may, entry, children) ==
    MkWritten("Ok", register_write(reg, entry, children),
              push_front(q, EditCmd(MkNode(entry, children))))

write_atop(reg, q, may, entry, children) ==
    IF ~may
    THEN MkWritten("AccessDenied", reg, q)
    ELSE MkWritten("Ok", register_write(reg, entry, children),
                   push_front(q, EditCmd(MkNode(entry, children))))

\* ClientRegister::write.  WriteIgnoresBranches is the variant without the
\* test for branches.
WriteIgnoresBranches(reg, q, may, entry) ==
    write_atop(reg, q, may, entry, FrontierHashes(reg))

write(reg, q, may, entry) ==
    LET children == read(reg)
    IN  IF Cardinality(children) > 1
        THEN MkWritten("ContentBranchDetected", reg, q)
        ELSE write_atop(reg, q, may, entry, {c[1] : c \in children})

\* ClientRegister::write_merging_branches.  WriteAtopOneBranch is the variant
\* that writes atop one entry of the frontier only.
WriteAtopOneBranch(reg, q, may, entry) ==
    write_atop(reg, q, may, entry,
               IF FrontierHashes(reg) = {} THEN {}
               ELSE {CHOOSE h \in FrontierHashes(reg) : TRUE})

write_merging_branches(reg, q, may, entry) ==
    write_atop(reg, q, may, entry, FrontierHashes(reg))

\* push, from the top of its `while let Some(cmd) = self.ops.pop_back()` to the
\* next await or to its return.
PushNext(q) ==
    IF q = <<>>
    THEN [cpc |-> "idle", cret |-> "Ok", ops |-> q, inflight |-> NoRegisterCmd]
    ELSE [cpc |-> "publish", cret |-> "none", ops |-> pop_back(q).ops,
          inflight |-> pop_back(q).cmd]

\* A register another client has written to, as a peer may return it.
Nx == MkNode("x", {})
RemoteReplicas == {EmptyRegister, RegisterOf({Nx})}

\* The response vectors Client::send_to_closest may return to the register
\* handle: up to K outcomes.
CmdLetters(kind) ==
    {CmdOk(kind), CmdErr(kind, PErr("AccessDenied")), ResponseTimeout}
CmdVectors(kind) == UNION {[1..n -> CmdLetters(kind)] : n \in 0..CLOSE_GROUP_SIZE}
GetRegisterLetters ==
    {RegisterOk(r) : r \in RemoteReplicas}
        \cup {RegisterErr(PErr("RegisterNotFound")), NetworkErr}
GetRegisterVectors ==
    UNION {[1..n -> GetRegisterLetters] : n \in 0..CLOSE_GROUP_SIZE}

\* All K peers of the close group answered Ok(()) to the cmd.
AllOk(resps, kind) ==
    /\ Len(resps) = CLOSE_GROUP_SIZE
    /\ \A i \in DOMAIN resps : IsOkOf(resps[i], kind)

\* `client.send_to_closest(request).await?`: the error of a failed lookup, or
\* the reduction of the responses.
Published(sent, reduced) == IF sent THEN reduced ELSE LookupFailed

\* A local write: write, write_merging_branches or write_atop.
LocalWrite(name, entry, r) ==
    /\ cpc = "idle"
    /\ Len(generated) < MaxWrites
    /\ register' = r.register
    /\ ops' = r.ops
    /\ cret' = r.res
    /\ generated' = IF r.res = "Ok" THEN Append(generated, Head(r.ops)) ELSE generated
    /\ call' = MkCall(name, entry)
    /\ UNCHANGED <<mayWrite, cpc, inflight, acked, cleanFrom, failedAt, syncClean,
                   retry, nodeVars, moreVars, redVars, loopVars, sendVars, mergeVars>>

ClientWrite(entry) ==
    LocalWrite("write", entry, write(register, ops, mayWrite, entry))

ClientWriteMergingBranches(entry) ==
    LocalWrite("write_merging_branches", entry,
               write_merging_branches(register, ops, mayWrite, entry))

ClientWriteAtop(entry, children) ==
    LocalWrite("write_atop", entry, write_atop(register, ops, mayWrite, entry, children))

\* ClientRegister::push is called.
ClientPush ==
    /\ cpc = "idle"
    /\ LET n == PushNext(ops)
       IN  /\ ops' = n.ops
           /\ inflight' = n.inflight
           /\ cpc' = n.cpc
           /\ cret' = n.cret
    /\ call' = MkCall("push", "none")
    /\ syncClean' = FALSE
    /\ UNCHANGED <<register, mayWrite, generated, acked, cleanFrom, failedAt,
                   retry, nodeVars, moreVars, redVars, loopVars, sendVars, mergeVars>>

\* ClientRegister::sync is called and awaits get_register.
ClientSync ==
    /\ cpc = "idle"
    /\ cpc' = "get"
    /\ cret' = "none"
    /\ call' = MkCall("sync", "none")
    /\ syncClean' = TRUE
    /\ retry' = (failedAt = acked + 1)
    /\ UNCHANGED <<register, ops, mayWrite, inflight, generated, acked, cleanFrom,
                   failedAt, nodeVars, moreVars, redVars, loopVars, sendVars, mergeVars>>

\* sync: get_register returned.  A register is merged and push starts; on an
\* error the Create cmd is published.
GetRegisterReturns(sent, resps) ==
    /\ cpc = "get"
    /\ LET r == Published(sent, get_register_reduce(resps))
           n == PushNext(ops)
       IN  IF r.class = "Ok"
           THEN /\ register' = merge(register, r.reg)
                /\ ops' = n.ops
                /\ inflight' = n.inflight
                /\ cpc' = n.cpc
                /\ cret' = n.cret
           ELSE /\ cpc' = "create"
                /\ UNCHANGED <<register, ops, inflight, cret>>
    /\ UNCHANGED <<mayWrite, call, generated, acked, cleanFrom, failedAt, syncClean,
                   retry, nodeVars, moreVars, redVars, loopVars, sendVars, mergeVars>>

\* sync: publish_register_create returned.  Its error ends sync; otherwise the
\* replica is merged with its own clone and push starts.  CreateErrorIgnored
\* is the variant without the `?`: it merges and pushes whatever the creation
\* returned.
CreateErrorIgnored(sent, resps) ==
    /\ cpc = "create"
    /\ LET n == PushNext(ops)
       IN  /\ register' = merge(register, register)
           /\ ops' = n.ops
           /\ inflight' = n.inflight
           /\ cpc' = n.cpc
           /\ cret' = n.cret
    /\ syncClean' = (syncClean /\ sent /\ AllOk(resps, "CreateRegister"))
    /\ UNCHANGED <<mayWrite, call, generated, acked, cleanFrom, failedAt,
                   retry, nodeVars, moreVars, redVars, loopVars, sendVars, mergeVars>>

CreateReturns(sent, resps) ==
    /\ cpc = "create"
    /\ LET r == Published(sent, publish_register_create_reduce(resps))
           n == PushNext(ops)
       IN  IF r.class = "Ok"
           THEN /\ register' = merge(register, register)
                /\ ops' = n.ops
                /\ inflight' = n.inflight
                /\ cpc' = n.cpc
                /\ cret' = n.cret
           ELSE /\ cret' = r.err.name
                /\ cpc' = "idle"
                /\ UNCHANGED <<register, ops, inflight>>
    /\ syncClean' = (syncClean /\ sent /\ AllOk(resps, "CreateRegister"))
    /\ UNCHANGED <<mayWrite, call, generated, acked, cleanFrom, failedAt,
                   retry, nodeVars, moreVars, redVars, loopVars, sendVars, mergeVars>>

\* push: publish_register_edit returned for the cmd popped last.  On an error
\* the cmd goes back to the back of the queue and push returns the error;
\* otherwise the loop goes on with the next cmd.
PublishReturns(sent, resps) ==
    /\ cpc = "publish"
    /\ LET r == Published(sent, publish_register_edit_reduce(resps))
           n == PushNext(ops)
       IN  IF r.class = "Ok"
           THEN /\ ops' = n.ops
                /\ inflight' = n.inflight
                /\ cpc' = n.cpc
                /\ cret' = n.cret
                /\ acked' = acked + 1
                /\ cleanFrom' = IF sent /\ AllOk(resps, "EditRegister")
                                THEN cleanFrom ELSE acked + 2
                /\ syncClean' = (syncClean /\ sent /\ AllOk(resps, "EditRegister"))
                /\ UNCHANGED failedAt
           ELSE /\ ops' = push_back(ops, inflight)
                /\ inflight' = NoRegisterCmd
                /\ cpc' = "idle"
                /\ cret' = r.err.name
                /\ failedAt' = acked + 1
                /\ syncClean' = FALSE
                /\ UNCHANGED <<acked, cleanFrom>>
    /\ UNCHANGED <<register, mayWrite, call, generated, retry,
                   nodeVars, moreVars, redVars, loopVars, sendVars, mergeVars>>

InitClient ==
    /\ spendStore = [n \in Nodes |-> EmptyStore]
    /\ InitHandler
    /\ InitNoReduce
    /\ InitNoLoop
    /\ InitNoSend
    /\ InitNoMerge
    /\ InitNoMore
    /\ InitClientIdle
    /\ mayWrite \in BOOLEAN

\* The entries the client writes: a new one with each write.
EntrySeq == <<"a", "b", "c", "d", "e">>
NextEntries == {EntrySeq[Len(generated) + 1]}

\* The parents write_atop is called with: none, or one entry of the frontier.
ChildrenChoices == {{}} \cup {{h} : h \in FrontierHashes(register)}

NextClient ==
    \/ \E entry \in NextEntries : ClientWrite(entry)
    \/ \E entry \in NextEntries : ClientWriteMergingBranches(entry)
    \/ \E entry \in NextEntries, children \in ChildrenChoices :
          ClientWriteAtop(entry, children)
    \/ ClientPush
    \/ ClientSync
    \/ \E resps \in GetRegisterVectors : GetRegisterReturns(TRUE, resps)
    \/ GetRegisterReturns(FALSE, <<>>)
    \/ \E resps \in CmdVectors("CreateRegister") : CreateReturns(TRUE, resps)
    \/ CreateReturns(FALSE, <<>>)
    \/ \E resps \in CmdVectors("EditRegister") : PublishReturns(TRUE, resps)
    \/ PublishReturns(FALSE, <<>>)

SpecClient == InitClient /\ [][NextClient]_vars

----------------------------------------------------------------------------
(* RegisterOp: one op that is built, signed by its owner or by an external   *)
(* signer, rebuilt with other fields around the same signature, and verified *)

\* RegisterOp::new with no signature.
NewOp(address, crdt_op, source) ==
    /\ op' = MkOp(address, crdt_op, source, NoSignature)
    /\ signedOver' = NotSigned
    /\ opCall' = MkOpCall("new", "none")
    /\ opRet' = "none"
    /\ UNCHANGED <<nodeVars, redVars, loopVars, sendVars, mergeVars, clientVars,
                   distVars, runVars>>

\* RegisterOp::new around the signature of the op at hand: an op as a peer
\* receives it, its fields being whatever the sender put there.
RebuildOp(address, crdt_op, source) ==
    /\ op' = MkOp(address, crdt_op, source, op.signature)
    /\ opCall' = MkOpCall("new", "none")
    /\ opRet' = "none"
    /\ UNCHANGED <<signedOver, nodeVars, redVars, loopVars, sendVars, mergeVars,
                   clientVars, distVars, runVars>>

\* RegisterOp::sign_with(sk).
SignWith(sk) ==
    /\ op' = sign_with(op, sk)
    /\ signedOver' = MkSigned(sk, op')
    /\ opCall' = MkOpCall("sign_with", sk)
    /\ opRet' = "none"
    /\ UNCHANGED <<nodeVars, redVars, loopVars, sendVars, mergeVars, clientVars,
                   distVars, runVars>>

\* External signing: the holder of sk signs bytes_for_signing() and the
\* signature is attached with add_signature(public_key, signature).
ExternalSign(sk, public_key) ==
    /\ op' = add_signature(op, public_key, sign(sk, bytes_for_signing(op)))
    /\ signedOver' = MkSigned(sk, op)
    /\ opCall' = MkOpCall(IF sk = public_key THEN "add_signature" ELSE "add_foreign",
                          public_key)
    /\ opRet' = "none"
    /\ UNCHANGED <<nodeVars, redVars, loopVars, sendVars, mergeVars, clientVars,
                   distVars, runVars>>

\* RegisterOp::verify_signature(pk).
VerifySignature(pk) ==
    /\ opRet' = verify_signature(op, pk)
    /\ opCall' = MkOpCall("verify_signature", pk)
    /\ UNCHANGED <<op, signedOver, nodeVars, redVars, loopVars, sendVars, mergeVars,
                   clientVars, distVars, runVars>>

InitIdle ==
    /\ spendStore = [n \in Nodes |-> EmptyStore]
    /\ InitHandler
    /\ InitNoReduce
    /\ InitNoLoop
    /\ InitNoSend
    /\ InitNoMerge
    /\ InitNoClient

InitOp == InitIdle /\ InitNoOp /\ InitNoDist /\ InitNoRun

NextOp ==
    \/ \E a \in OpAddresses, n \in OpNodes, s \in Users : NewOp(a, n, s)
    \/ \E a \in OpAddresses, n \in OpNodes, s \in Users : RebuildOp(a, n, s)
    \/ \E sk \in Keys : SignWith(sk)
    \/ \E sk \in Keys, pk \in Keys : ExternalSign(sk, pk)
    \/ \E pk \in Keys : VerifySignature(pk)

SpecOp == InitOp /\ [][NextOp]_vars

----------------------------------------------------------------------------
(* NetworkAddress::distance applied to pairs of addresses of every kind *)

Distance(a, other) ==
    /\ distA' = a
    /\ distB' = other
    /\ dist' = distance(a, other)
    /\ UNCHANGED <<nodeVars, redVars, loopVars, sendVars, mergeVars, clientVars,
                   opVars, runVars>>

InitDistance == InitIdle /\ InitNoOp /\ InitNoDist /\ InitNoRun

NextDistance == \E a \in NetworkAddresses, other \in NetworkAddresses : Distance(a, other)

SpecDistance == InitDistance /\ [][NextDistance]_vars

----------------------------------------------------------------------------
(* Node::run: the loop over network_event_receiver with every kind of        *)
(* NetworkEvent but Cmd::Dbc, and the closing of the channel.                *)

\* How often the loop is followed through `None => { error!(..); continue }`.
MaxClosedSeen == 2

\* NetworkEvent::PeerAdded, and the requests other than queries a peer sends.
PeerAdded == MkRequest("PeerAdded", dbc_address("none"), NoSpend, NoSpend)
RegisterCmdRequest(kind) == MkRequest(kind, dbc_address("none"), NoSpend, NoSpend)
InboundEvents ==
    {GetDbcSpendQuery(dbc_address(id)) : id \in DbcIds}
        \cup {DoubleSpendAttempted(P1a, P1b), DoubleSpendAttempted(P1a, P1a)}
        \cup {RegisterCmdRequest("CreateRegister"), RegisterCmdRequest("EditRegister")}
        \cup {PeerAdded}

\* What storage.write may answer to a register cmd.
WriteResults(kind) == {CmdOk(kind), CmdErr(kind, PErr("RegisterNotFound"))}

\* Request::Event(DoubleSpendAttempted(a, b)): try_add_double, no response.
HandleEvent ==
    /\ runPc = "loop"
    /\ pc = "idle"
    /\ inbox # <<>>
    /\ Head(inbox).kind = "DoubleSpendAttempted"
    /\ LET h == handle_request(Head(inbox), spendStore[Self], doubleLog[Self], NoResult)
       IN  /\ doubleLog' = [doubleLog EXCEPT ![Self] = h.log]
           /\ handled' = MkHandled(Head(inbox), h.res)
           /\ sentResponses' = h.responses
    /\ inbox' = Tail(inbox)
    /\ UNCHANGED <<spendStore, pc, cmd, idx, all_parent_spends, request, contacted,
                   pending, responses, delivered, channel, ret, fetchLog, fetchRes,
                   writeResp, evDispatched, sentCount, returned, conflict, queryResp,
                   runPc, chanClosed, closedSeen, nodeEvents, opVars, distVars,
                   redVars, sendVars, mergeVars, clientVars>>

\* Request::Cmd(cmd) for a cmd that is not Cmd::Dbc: storage.write, then
\* send_response(Response::Cmd(resp)).
HandleCmd(wres) ==
    /\ runPc = "loop"
    /\ pc = "idle"
    /\ inbox # <<>>
    /\ Head(inbox).kind \in {"CreateRegister", "EditRegister"}
    /\ wres \in WriteResults(Head(inbox).kind)
    /\ LET h == handle_request(Head(inbox), spendStore[Self], doubleLog[Self], wres)
       IN  /\ handled' = MkHandled(Head(inbox), h.res)
           /\ sentResponses' = h.responses
    /\ inbox' = Tail(inbox)
    /\ UNCHANGED <<nodeVars, queryResp, runPc, chanClosed, closedSeen, nodeEvents,
                   opVars, distVars, redVars, sendVars, mergeVars, clientVars>>

\* NetworkEvent::PeerAdded: ConnectedToNetwork is broadcast.
HandlePeerAdded ==
    /\ runPc = "loop"
    /\ pc = "idle"
    /\ inbox # <<>>
    /\ Head(inbox).kind = "PeerAdded"
    /\ nodeEvents' = nodeEvents \cup {"ConnectedToNetwork"}
    /\ inbox' = Tail(inbox)
    /\ UNCHANGED <<nodeVars, queryResp, runPc, chanClosed, closedSeen, handled,
                   sentResponses, opVars, distVars, redVars, sendVars, mergeVars,
                   clientVars>>

\* The swarm driver ends: the last sender of the channel is dropped.
ChannelCloses ==
    /\ ~chanClosed
    /\ chanClosed' = TRUE
    /\ UNCHANGED <<nodeVars, loopVars, runPc, closedSeen, nodeEvents, handled,
                   sentResponses, opVars, distVars, redVars, sendVars, mergeVars,
                   clientVars>>

\* recv() returns None on the closed and drained channel: the error is
\* logged and the loop continues.
RecvNone ==
    /\ runPc = "loop"
    /\ pc = "idle"
    /\ chanClosed
    /\ inbox = <<>>
    /\ closedSeen < MaxClosedSeen
    /\ closedSeen' = closedSeen + 1
    /\ UNCHANGED <<nodeVars, loopVars, runPc, chanClosed, nodeEvents, handled,
                   sentResponses, opVars, distVars, redVars, sendVars, mergeVars,
                   clientVars>>

\* The node holds none, one or both of the parent spends.
InitRun ==
    /\ spendStore \in {[n \in Nodes |-> IF n = Self THEN PeerStore(a, b) ELSE EmptyStore] :
                          a \in {NoSpend, P1a}, b \in {NoSpend, P2a}}
    /\ InitHandler
    /\ InitNoReduce
    /\ InitRest

NextRun ==
    \/ \E q \in InboundEvents : RequestArrives(q)
    \/ HandleQuery
    \/ HandleEvent
    \/ \E wres \in WriteResults("CreateRegister") \cup WriteResults("EditRegister") :
          HandleCmd(wres)
    \/ HandlePeerAdded
    \/ ChannelCloses
    \/ RecvNone

SpecRun == InitRun /\ [][NextRun]_vars

----------------------------------------------------------------------------
(* ClientRegister: the online writes.  Each one is the local write followed *)
(* by push, which runs to its first await; the responses of the close group *)
(* are drawn when the await returns.                                        *)

\* write_online, write_merging_branches_online and write_atop_online:
\* `self.write..(entry)?; self.push().await`.  r is what the local write
\* returned; its error ends the call before push.
OnlineWrite(name, entry, r) ==
    /\ cpc = "idle"
    /\ Len(generated) < MaxWrites
    /\ register' = r.register
    /\ generated' = IF r.res = "Ok" THEN Append(generated, Head(r.ops)) ELSE generated
    /\ call' = MkCall(name, entry)
    /\ IF r.res = "Ok"
       THEN LET n == PushNext(r.ops)
            IN  /\ ops' = n.ops
                /\ inflight' = n.inflight
                /\ cpc' = n.cpc
                /\ cret' = n.cret
                /\ syncClean' = FALSE
       ELSE /\ ops' = r.ops
            /\ cret' = r.res
            /\ UNCHANGED <<cpc, inflight, syncClean>>
    /\ UNCHANGED <<mayWrite, acked, cleanFrom, failedAt, retry,
                   nodeVars, moreVars, redVars, loopVars, sendVars, mergeVars>>

ClientWriteOnline(entry) ==
    OnlineWrite("write_online", entry, write(register, ops, mayWrite, entry))

ClientWriteMergingBranchesOnline(entry) ==
    OnlineWrite("write_merging_branches_online", entry,
                write_merging_branches(register, ops, mayWrite, entry))

ClientWriteAtopOnline(entry, children) ==
    OnlineWrite("write_atop_online", entry,
                write_atop(register, ops, mayWrite, entry, children))

NextOnline ==
    \/ \E entry \in NextEntries : ClientWriteOnline(entry)
    \/ \E entry \in NextEntries : ClientWriteMergingBranchesOnline(entry)
    \/ \E entry \in NextEntries, children \in ChildrenChoices :
          ClientWriteAtopOnline(entry, children)
    \/ \E resps \in CmdVectors("EditRegister") : PublishReturns(TRUE, resps)
    \/ PublishReturns(FALSE, <<>>)

SpecOnline == InitClient /\ [][NextOnline]_vars

----------------------------------------------------------------------------
(* The Dbc pipeline under the scheduling the code relies on.  The overlay   *)
(* answers a lookup, every future of send_and_get_responses is a            *)
(* tokio::time::timeout of ten seconds around send_request, so the timer of *)
(* a pending request fires whatever its peer does, and the handler runs on  *)
(* when its await returns.  Nothing is required of the peers: they may      *)
(* never answer.                                                            *)

SpecLive ==
    /\ Init
    /\ [][Next]_vars
    /\ WF_vars(\/ LookupFails
               \/ \E closest \in ClosestPeers(request.address),
                     n \in 0..CLOSE_GROUP_SIZE : LookupReturns(closest, n))
    /\ WF_vars(\E p \in Nodes : TimesOut(p))
    /\ WF_vars(FetchCompletes)
    /\ WF_vars(EventCompletes)

----------------------------------------------------------------------------
(* Properties *)

Min(S) == CHOOSE x \in S : \A y \in S : x <= y

\* The successful GetDbcSpend responses of a vector, and whether they are a
\* unanimous answer of the close group.
SuccessIndexes(resps) == {i \in DOMAIN resps : IsOkOf(resps[i], "GetDbcSpend")}
Unanimous(resps) ==
    /\ Cardinality(SuccessIndexes(resps)) >= CLOSE_GROUP_SIZE
    /\ \A i, j \in SuccessIndexes(resps) : resps[i].spend = resps[j].spend
UnanimousSpend(resps) == resps[Min(SuccessIndexes(resps))].spend

IsDoubleSpend(r) == r.class = "Protocol" /\ r.err.name = "DoubleSpendAttempt"

\* C1: over the whole execution get_spend never returns two different signed
\* spends for one address, however conflicting spends reach the peers of the
\* close group.
C1_AtMostOneCommitted == \A id \in ParentIds : Cardinality(returned[id]) <= 1

\* A spend of p1 was returned, a conflicting write has reached an occupied
\* address, and a later get_spend for p1 is collecting responses.
C1_Witness ==
    /\ returned["p1"] # {}
    /\ conflict
    /\ pc = "fetch_collect"
    /\ AddressId(request.address) = "p1"
    /\ responses # <<>>

\* C2: get_spend returns Ok(s) exactly when at least K of the collected
\* responses are successful GetDbcSpend responses and all of them carry s;
\* otherwise it returns an error and no spend.
C2_GetSpendIffUnanimous ==
    (redKind = "GetDbcSpend" /\ redResult # NoResult) =>
        /\ (redResult.class = "Ok") <=> Unanimous(redResponses)
        /\ redResult.class = "Ok" =>
              \A i \in SuccessIndexes(redResponses) :
                  redResponses[i].spend = redResult.spend
        /\ redResult.class # "Ok" =>
              redResult.class \in {"Protocol", "Other"} /\ redResult.spend = NoSpend

\* get_spend succeeded on more than K responses, one of them not a success.
C2_Witness ==
    /\ redKind = "GetDbcSpend"
    /\ redResult.class = "Ok"
    /\ Len(redResponses) > CLOSE_GROUP_SIZE
    /\ \E i \in DOMAIN redResponses : ~IsOkOf(redResponses[i], "GetDbcSpend")

\* C3: a failed reduction returns the first protocol error of the expected
\* response kind in response order, else the first transport or timeout error
\* in response order, else UnexpectedResponses.
C3_FirstProtocolErrorWins ==
    (redResult # NoResult /\ redResult.class # "Ok") =>
        LET protocol == {i \in DOMAIN redResponses : IsErrOf(redResponses[i], redKind)}
            transport == {i \in DOMAIN redResponses : ~redResponses[i].ok}
        IN  IF protocol # {}
            THEN redResult = ResProtocol(redResponses[Min(protocol)].err)
            ELSE IF transport # {}
            THEN redResult = ResOther(redResponses[Min(transport)].err)
            ELSE redResult.err = UnexpectedResponses

\* A timeout arrived before a peer's protocol error, and a second protocol
\* error follows: the reduction failed with the first protocol error.
C3_Witness ==
    /\ redResult.class = "Protocol"
    /\ \E i, j, k \in DOMAIN redResponses :
          /\ i < j /\ j < k
          /\ redResponses[i] = ResponseTimeout
          /\ IsErrOf(redResponses[j], redKind)
          /\ IsErrOf(redResponses[k], redKind)
          /\ redResponses[j].err # redResponses[k].err

\* C4: publish_register_create and publish_register_edit return Ok(()) only
\* when all K close-group peers answered Ok(()).
C4_PublishOkOnlyWhenAllK ==
    (redKind \in {"CreateRegister", "EditRegister"} /\ redResult.class = "Ok") =>
        Cardinality({i \in DOMAIN redResponses : IsOkOf(redResponses[i], redKind)})
            >= CLOSE_GROUP_SIZE

HashConsistent ==
    cmd # NoCmd /\ cmd.source_tx.hash = cmd.signed_spend.src_tx_hash
ValidationOver == HashConsistent /\ pc \notin {"fetch_lookup", "fetch_collect"}
ValidationSucceeded == writeResp # NoResult

\* Every input of source_tx has a parent that its close group returned
\* unanimously, with the parent's dst tx the spend's src tx.
ParentsRecorded ==
    /\ Len(fetchLog) = Len(cmd.source_tx.inputs)
    /\ \A i \in DOMAIN fetchLog :
          /\ Unanimous(fetchLog[i])
          /\ UnanimousSpend(fetchLog[i]).dbc_id = cmd.source_tx.inputs[i].dbc_id
          /\ UnanimousSpend(fetchLog[i]).dst_tx_hash = cmd.signed_spend.src_tx_hash
ParentsVerify ==
    verify(cmd.source_tx,
           known_parent_blinded_amounts(
               {UnanimousSpend(fetchLog[i]) : i \in DOMAIN fetchLog}))

ParentsAsked ==
    \A i \in DOMAIN fetchLog : Len(fetchLog[i]) = CLOSE_GROUP_SIZE

\* C6: a Dbc command whose parent validation fails is never written to the
\* spend store and the client is answered with the matching protocol error
\* (stated for the commands whose parent fetches reached the whole close group).
C6_InvalidParentsAnswered ==
    (HashConsistent /\ ret # "none" /\ ParentsAsked
        /\ ~(ParentsRecorded /\ ParentsVerify)) =>
        /\ writeResp = NoResult
        /\ channel.class = "Protocol"
        /\ ParentsRecorded =>
              channel.err = InvalidSourceTx(cmd.signed_spend, cmd.source_tx)
        /\ (fetchLog # <<>> /\ Unanimous(fetchLog[Len(fetchLog)]) /\ ~ParentsRecorded) =>
              channel.err = ParentMismatch(cmd.signed_spend,
                                           UnanimousSpend(fetchLog[Len(fetchLog)]))

\* C7: a command whose source_tx hash differs from the signed spend's src tx
\* hash is answered SignedSrcTxHashDoesNotMatchProvidedSrcTxHash and nothing
\* else happens: no request is sent, nothing is written, no event is emitted.
C7_HashMismatchRejected ==
    [][(pc = "idle" /\ cmd'.source_tx.hash # cmd'.signed_spend.src_tx_hash) =>
          /\ channel' = ResProtocol(HashMismatch(cmd'.signed_spend, cmd'.source_tx))
          /\ ret' = "Ok"
          /\ pc' = "idle"
          /\ spendStore' = spendStore
          /\ doubleLog' = doubleLog
          /\ sentCount' = 0
          /\ fetchLog' = <<>>
          /\ writeResp' = NoResult
          /\ evDispatched' = FALSE]_vars

\* A mismatching command was answered at a node that already stores a spend.
C7_Witness ==
    /\ pc = "idle"
    /\ cmd.source_tx.hash # cmd.signed_spend.src_tx_hash
    /\ channel.err.name = "SignedSrcTxHashDoesNotMatchProvidedSrcTxHash"
    /\ spendStore[Self][ChildId] # NoSpend

\* C8: the spend store is first-write-wins: no write changes the spend of an
\* occupied address, and the write of a different spend s2 to the address of a
\* stored s1 is answered DoubleSpendAttempt{new = s2, existing = s1}.
C8_FirstWriteWins ==
    /\ [][\A n \in Nodes, id \in DbcIds :
             spendStore[n][id] # NoSpend => spendStore'[n][id] = spendStore[n][id]]_vars
    /\ [](IsDoubleSpend(writeResp) =>
             /\ writeResp.err.new = cmd.signed_spend
             /\ writeResp.err.existing = spendStore[Self][ChildId]
             /\ writeResp.err.existing # cmd.signed_spend)
    /\ [](IsDoubleSpend(channel) =>
             channel.err = DoubleSpendAttempt(cmd.signed_spend, spendStore[Self][ChildId]))

\* The second, different spend of c was answered DoubleSpendAttempt and the
\* first one is still stored.
C8_Witness ==
    /\ IsDoubleSpend(channel)
    /\ spendStore[Self][ChildId] \in ChildSpends \ {cmd.signed_spend}

\* C9: when storage.write answers DoubleSpendAttempt{new, existing} the node
\* sends the DoubleSpendAttempted event to the close group and echoes the error
\* to the client; the event is sent for no other outcome, and before the
\* response.
C9_EventThenEcho ==
    /\ (ret # "none" /\ IsDoubleSpend(writeResp)) =>
          /\ evDispatched
          /\ channel = ResProtocol(DoubleSpendAttempt(writeResp.err.new,
                                                      writeResp.err.existing))
    /\ evDispatched => IsDoubleSpend(writeResp)
    /\ (channel # NoResult /\ IsDoubleSpend(writeResp)) => evDispatched

\* The event fan-out of the handled command reached every peer the lookup gave.
EventDelivered ==
    /\ IsEvent
    /\ evDispatched
    /\ pc = "idle"
    /\ Cardinality(contacted) = CLOSE_GROUP_SIZE
    /\ delivered = contacted

\* C10: after s1 is committed and s2 for the same address is submitted with
\* valid parents, the node answers DoubleSpendAttempt{new = s2, existing = s1}
\* and, once the event fan-out is delivered, the double-spend log of every one
\* of the K close-group peers of the address holds the pair.
C10_AllCloseGroupLogs ==
    (IsDoubleSpend(writeResp) /\ EventDelivered) =>
        /\ channel = ResProtocol(DoubleSpendAttempt(cmd.signed_spend,
                                                    spendStore[Self][ChildId]))
        /\ \A n \in CloseGroup(request.address) :
              \/ <<writeResp.err.new, writeResp.err.existing>> \in doubleLog[n]
              \/ <<writeResp.err.existing, writeResp.err.new>> \in doubleLog[n]

\* C11: every invocation of add_if_valid sends a response on the response
\* channel, whatever the outcome: once the handler has returned, the channel
\* has been given a response.
C11_AlwaysResponds == ret # "none" => channel # NoResult

\* C12: request handlers run as independent tasks: while the handler of a Dbc
\* command is suspended, a request that waits at the node can still be taken
\* up and answered; handling one request never delays the start of the next.
C12_HandlersIndependent == inbox # <<>> => ENABLED HandleQuery

SendReturned == sendPc = "done"
SendSucceeded ==
    {p \in peers : sendOutcome[p].timer = "completed" /\ sendOutcome[p].res.ok}
\* The returned vector holds, for each of the given peers exactly once, what
\* that peer's future ended with.
OnePerPeer ==
    /\ Len(sendRet) = Cardinality(peers)
    /\ Len(sendFrom) = Len(sendRet)
    /\ {sendFrom[i] : i \in DOMAIN sendFrom} = peers
    /\ \A i \in DOMAIN sendRet : sendRet[i] = Contribution(sendOutcome[sendFrom[i]])

\* C13: with get_all_responses = true, send_and_get_responses always returns,
\* and the vector it returns has exactly one outcome per peer it was given: the
\* peer's response, its transport error, or ResponseTimeout.
C13_OneOutcomePerPeer ==
    /\ []((SendReturned /\ get_all_responses) => OnePerPeer)
    /\ ((sendPc = "select" /\ get_all_responses) ~> SendReturned)

\* All MaxPeers peers were asked; one timed out, one failed and one answered.
C13_Witness ==
    /\ SendReturned
    /\ get_all_responses
    /\ Cardinality(peers) = MaxPeers
    /\ \E i, j, k \in DOMAIN sendRet :
          /\ sendRet[i] = ResponseTimeout
          /\ sendRet[j] = NetworkErr
          /\ sendRet[k].ok

\* C14: with get_all_responses = false, send_and_get_responses returns as soon
\* as the future of any peer yields a response (Ok at the transport level): the
\* result is that one response alone, the errors and timeouts before it are
\* dropped and the futures left are not awaited; only when no peer yields a
\* response does it return the per-peer errors.
C14_FirstOkOnly ==
    /\ (sendPc = "select" /\ ~get_all_responses) => SendSucceeded = {}
    /\ (SendReturned /\ ~get_all_responses) =>
          IF SendSucceeded # {}
          THEN /\ Cardinality(SendSucceeded) = 1
               /\ \A p \in SendSucceeded :
                     sendRet = <<sendOutcome[p].res>> /\ sendFrom = <<p>>
          ELSE /\ list_of_futures = {}
               /\ OnePerPeer
               /\ \A i \in DOMAIN sendRet : ~sendRet[i].ok

\* The first response came after an error of another peer and while a third
\* peer's future was still running.
C14_Witness ==
    /\ SendReturned
    /\ ~get_all_responses
    /\ SendSucceeded # {}
    /\ list_of_futures # {}
    /\ \E p \in peers \ SendSucceeded : sendOutcome[p].timer # "pending"

RegisterIndexes(resps) == {i \in DOMAIN resps : IsOkOf(resps[i], "GetRegister")}

\* C15: get_register returns the first register in response order whenever
\* some peer's response is GetRegister(Ok(register)), whatever the other peers
\* answered; it fails only when no peer returned a register.
C15_FirstRegisterWins ==
    (redKind = "GetRegister" /\ redResult # NoResult) =>
        IF RegisterIndexes(redResponses) # {}
        THEN redResult =
                 ResRegister(redResponses[Min(RegisterIndexes(redResponses))].reg)
        ELSE redResult.class \in {"Protocol", "Other"}

\* A peer's error came first, then two different registers: the earlier of the
\* two was returned.
C15_Witness ==
    /\ redKind = "GetRegister"
    /\ redResult.class = "Ok"
    /\ Len(redResponses) >= 3
    /\ IsErrOf(redResponses[1], "GetRegister")
    /\ IsOkOf(redResponses[2], "GetRegister")
    /\ IsOkOf(redResponses[3], "GetRegister")
    /\ redResponses[2].reg # redResponses[3].reg

\* C18: any two replicas that were given the same set of ops, in whatever order
\* and through whatever merges, read the same frontier.
C18_Convergence ==
    \A i, j \in ReplicaIds :
        seen[i] = seen[j] => read(replica[i]) = read(replica[j])

\* Two replicas hold the same three nodes with a branched frontier; one of them
\* got there by merging, the other by applying the ops itself.
C18_Witness ==
    /\ seen[1] = {Na, Nb, Nd}
    /\ seen[2] = seen[1]
    /\ merged[1]
    /\ ~merged[2]
    /\ Cardinality(read(replica[1])) = 2

\* C19: merge is commutative, associative and idempotent on replicas of one
\* register, and the merged replica holds the union of the nodes of both.
C19_MergeAlgebra ==
    \A i, j, k \in ReplicaIds :
        LET a == replica[i]
            b == replica[j]
            c == replica[k]
        IN  /\ merge(a, b) = merge(b, a)
            /\ merge(merge(a, b), c) = merge(a, merge(b, c))
            /\ merge(a, a) = a
            /\ NodesOf(merge(a, b)) = NodesOf(a) \cup NodesOf(b)

\* Three replicas none of which holds all the nodes of another, two of them
\* sharing a node.
C19_Witness ==
    /\ NodesOf(replica[1]) = {Na, Nb}
    /\ NodesOf(replica[2]) = {Nb, Nc}
    /\ NodesOf(replica[3]) = {Nd}

RECURSIVE Reverse(_)
Reverse(q) == IF q = <<>> THEN <<>> ELSE Append(Reverse(Tail(q)), Head(q))

\* The queue, oldest cmd first and with the cmd being published put back at
\* its end, is generated without its first `acked` cmds.
QueueInGenerationOrder ==
    Reverse(IF cpc = "publish" THEN Append(ops, inflight) ELSE ops)
        = SubSeq(generated, acked + 1, Len(generated))

\* C16: in every reachable state the queue holds exactly the locally generated
\* ops that push has not yet published successfully (publish returned Ok), in
\* generation order; after a failed push the op that failed is back at the end
\* push takes from, before every op generated after it.
C16_QueueInvariant ==
    /\ QueueInGenerationOrder
    /\ (cpc = "idle" /\ call.name \in {"push", "sync"} /\ cret \notin {"Ok", "none"}
            /\ failedAt = acked + 1) =>
          ops[Len(ops)] = generated[failedAt]

\* A push published the first of three ops and failed on the second, which is
\* queued again with the third.
C16_Witness ==
    /\ cpc = "idle"
    /\ call.name = "push"
    /\ cret \notin {"Ok", "none"}
    /\ acked = 1
    /\ failedAt = 2
    /\ Len(ops) = 2

\* C17: when a push has failed on some op, the next sync, if all K peers answer
\* Ok(()) to every cmd of it, returns Ok and leaves the queue empty, the op that
\* failed and every op after it having been published.  (retry: the op
\* that failed was still queued when the sync was called.)
C17_PushRetry ==
    (cpc = "idle" /\ call.name = "sync" /\ syncClean /\ retry) =>
        /\ cret = "Ok"
        /\ ops = <<>>
        /\ acked = Len(generated)
        /\ cleanFrom <= failedAt

\* Three edits were queued; the push failed on the second of them and the
\* sync after it went through.
C17_Witness ==
    /\ cpc = "idle"
    /\ call.name = "sync"
    /\ syncClean
    /\ failedAt = 2
    /\ retry
    /\ Len(generated) = 3
    /\ cret = "Ok"

\* C20: write(entry) fails with ContentBranchDetected whenever the frontier
\* holds more than one entry, leaving the register and the queue as they were;
\* with a frontier of 0 or 1 entries it is write_atop(entry, that frontier): a
\* permitted write adds the node whose parents are exactly the frontier and
\* queues its op.
C20_WriteDetectsBranches ==
    [][(call' # call /\ call'.name = "write") =>
          IF Cardinality(read(register)) > 1
          THEN /\ cret' = "ContentBranchDetected"
               /\ register' = register
               /\ ops' = ops
          ELSE LET node == MkNode(call'.entry, FrontierHashes(register))
               IN  IF mayWrite
                   THEN /\ cret' = "Ok"
                        /\ NodesOf(register') = NodesOf(register) \cup {node}
                        /\ ops' = <<EditCmd(node)>> \o ops
                   ELSE /\ cret' = "AccessDenied"
                        /\ register' = register
                        /\ ops' = ops]_vars

\* A write met two branches and was refused while an op was queued.
C20_Witness ==
    /\ call.name = "write"
    /\ cret = "ContentBranchDetected"
    /\ Cardinality(read(register)) = 2
    /\ ops # <<>>

\* The step is a call of write_merging_branches that returned Ok.
MergingWriteSucceeds ==
    call' # call /\ call'.name = "write_merging_branches" /\ cret' = "Ok"

\* The node such a step writes, and the (hash, entry) pair read() yields for it.
MergingNode == MkNode(call'.entry, FrontierHashes(register))
MergingRead == <<entry_hash(MergingNode), call'.entry>>

\* C21 (amended): write_merging_branches(entry) on a replica whose frontier is
\* F adds the node whose parents are exactly F, and the frontier of the replica
\* is then that entry alone; a replica that holds nothing the writer had not
\* seen reads only that entry once it has merged the writer's replica.
C21_MergingBranches ==
    [][MergingWriteSucceeds =>
          /\ NodesOf(register') = NodesOf(register) \cup {MergingNode}
          /\ read(register') = {MergingRead}
          /\ \A r \in RemoteReplicas :
                NodesOf(r) \subseteq NodesOf(register) =>
                    read(merge(r, register')) = {MergingRead}]_vars

\* write_merging_branches succeeded atop two branches, one of them written by
\* another client and obtained by a sync.
C21_Witness ==
    /\ call.name = "write_merging_branches"
    /\ cret = "Ok"
    /\ Cardinality(read(register)) = 1
    /\ \E n \in NodesOf(register) :
          /\ read(register) = {<<entry_hash(n), n.entry>>}
          /\ Cardinality(n.parents) = 2
          /\ entry_hash(Nx) \in n.parents

\* C21 as stated: every replica that merges the op of a successful
\* write_merging_branches reads only the new entry as its frontier.
C21_EveryMergerReadsNew ==
    [][MergingWriteSucceeds =>
          \A r \in RemoteReplicas : read(merge(r, register')) = {MergingRead}]_vars

\* The fields of the op at hand are those its signature was made over, or hash
\* to the same bytes.
SameFieldsAsSigned ==
    /\ signedOver.address = op.address
    /\ signedOver.crdt_op = op.crdt_op
    /\ signedOver.source = op.source
SameBytesAsSigned ==
    hash_value(signedOver.address, signedOver.crdt_op, signedOver.source)
        = hash_value(op.address, op.crdt_op, op.source)

\* C22 (amended): verify_signature(pk) returns MissingSignature exactly when
\* the op has no signature; it returns Ok exactly when the signature was made
\* by the secret key of pk over fields that hash to the same bytes as the op's
\* current address, crdt node and source; it returns InvalidSignature otherwise.
C22_VerifySignature ==
    opCall.name = "verify_signature" =>
        /\ opRet \in {"Ok", "MissingSignature", "InvalidSignature"}
        /\ opRet = "MissingSignature" <=> op.signature = NoSignature
        /\ opRet = "Ok" <=>
              /\ op.signature # NoSignature
              /\ signedOver.signer = opCall.pk
              /\ SameBytesAsSigned

\* The op was signed by the key it is verified under, then rebuilt with other
\* fields, and verify_signature answered InvalidSignature.
C22_Witness ==
    /\ opCall.name = "verify_signature"
    /\ opRet = "InvalidSignature"
    /\ signedOver.signer = opCall.pk
    /\ ~SameFieldsAsSigned

\* C22 as stated: verify_signature(pk) returns Ok if and only if the signature
\* was made by the secret key of pk over the op's current address, crdt node
\* and source; InvalidSignature whenever one of them differs from what was
\* signed.
C22_VerifyIffSignedOverFields ==
    opCall.name = "verify_signature" =>
        /\ opRet = "MissingSignature" <=> op.signature = NoSignature
        /\ opRet = "Ok" <=>
              /\ op.signature # NoSignature
              /\ signedOver.signer = opCall.pk
              /\ SameFieldsAsSigned

\* C28: after the holder of the secret key of pk has signed the bytes that
\* bytes_for_signing() returned and the signature was attached with
\* add_signature(pk, signature), verify_signature(pk) returns Ok, whatever the
\* source of the op was.
C28_ExternalSignRoundTrip ==
    opCall.name = "add_signature" => verify_signature(op, opCall.pk) = "Ok"

\* C23: for all network addresses a and b of any kinds, distance(a, b) is the
\* XOR of the hashed keys of their bytes, distance(a, b) = distance(b, a), and
\* distance(a, a) = 0.
C23_DistanceSymmetric ==
    distA # NoAddress =>
        /\ dist = Xor(as_kbucket_key(distA), as_kbucket_key(distB))
        /\ dist = distance(distB, distA)
        /\ distA = distB => dist = 0
        /\ distance(distA, distA) = 0

\* The distance of a peer to a register address with other bytes was taken.
C23_Witness ==
    /\ distA.kind = "PeerId"
    /\ distB.kind = "RegisterAddress"
    /\ distA.name # distB.name
    /\ dist > 0

\* C24: once the loop has found its network-event channel closed (recv()
\* returned None), NodeEvent::ChannelClosed has been broadcast on the events
\* channel and the loop task has ended.
C24_ChannelClosedSurfaced ==
    closedSeen > 0 => "ChannelClosed" \in nodeEvents /\ runPc # "loop"

\* A query was answered, a cmd was answered, or an event was handled by the
\* loop, and what was sent on the response channel.
HandledKind == handled.req.kind
C25_Responses ==
    /\ HandledKind = "DoubleSpendAttempted" => sentResponses = <<>>
    /\ HandledKind \in {"GetDbcSpend", "CreateRegister", "EditRegister"} =>
          sentResponses = <<handled.res>>
    /\ HandledKind = "GetDbcSpend" =>
          handled.res \in {SpendErr(PErr("SpendNotFound"))}
                              \cup {SpendOk(s) : s \in ParentSpends}

\* The step handles a DoubleSpendAttempted event.
EventStep ==
    /\ inbox # <<>>
    /\ Head(inbox).kind = "DoubleSpendAttempted"
    /\ inbox' = Tail(inbox)

\* C25: handling an inbound Event(DoubleSpendAttempted(a, b)) changes nothing
\* but the local double-spend log, to which it adds at most the pair (a, b),
\* and sends no response, whether the recording succeeds or fails; every
\* inbound Query and every Cmd that is not a Dbc is answered with exactly one
\* response, which carries the result of the storage call.
C25_EventsUnanswered ==
    /\ []C25_Responses
    /\ [][EventStep =>
            /\ spendStore' = spendStore
            /\ queryResp' = queryResp
            /\ channel' = channel
            /\ \A n \in Nodes \ {Self} : doubleLog'[n] = doubleLog[n]
            /\ doubleLog'[Self] \subseteq
                  doubleLog[Self] \cup {<<Head(inbox).a, Head(inbox).b>>}
            /\ sentResponses' = <<>>]_vars

\* An event whose pair could not be recorded was handled without a response,
\* after the node had recorded another pair.
C25_Witness ==
    /\ HandledKind = "DoubleSpendAttempted"
    /\ handled.res.res = "Err"
    /\ doubleLog[Self] # {}
    /\ sentResponses = <<>>

\* C26: validate_spend_parents returns only protocol errors: no parent fetch
\* of a command ends in a transport error, a timeout or a failed lookup, and
\* add_if_valid never returns an error before the storage write.
C26_OnlyProtocolErrors ==
    /\ \A i \in DOMAIN fetchRes : fetchRes[i].class \in {"Ok", "Protocol"}
    /\ (ret = "Err" => writeResp # NoResult)

\* C27: a spend goes on to the storage write only if its dbc id is among the
\* outputs of the source_tx it came with.
C27_SpendIsOutputOfSourceTx ==
    writeResp # NoResult => cmd.signed_spend.dbc_id \in cmd.source_tx.outputs

\* The step is a call of write_atop.
WriteAtopStep == call' # call /\ call'.name = "write_atop"

\* C29: write_atop checks the write rights of the client's key first: without
\* them it fails with AccessDenied, the local replica gets no entry and no op
\* is queued; a permitted write applies the entry to the replica and queues
\* exactly one Edit op, the one for that entry.
C29_WriteAtopChecksRights ==
    [][WriteAtopStep =>
          IF mayWrite
          THEN /\ cret' = "Ok"
               /\ \E n \in NodesOf(register') :
                     /\ n.entry = call'.entry
                     /\ NodesOf(register') = NodesOf(register) \cup {n}
                     /\ ops' = <<EditCmd(n)>> \o ops
               /\ Len(ops') = Len(ops) + 1
          ELSE /\ cret' = "AccessDenied"
               /\ register' = register
               /\ ops' = ops]_vars

\* write_atop was refused for a client without write rights.
C29_Witness ==
    /\ call.name = "write_atop"
    /\ cret = "AccessDenied"
    /\ ~mayWrite
    /\ register = EmptyRegister
    /\ ops = <<>>

\* C30: push sends the queued ops in generation order, one at a time, and an
\* op is sent only when every op generated before it has been acknowledged
\* with Ok(()) by all K peers of the close group.
C30_PublishOrdering ==
    cpc = "publish" =>
        /\ inflight = generated[acked + 1]
        /\ cleanFrom = 1

\* What publish_register_create returns to sync for one outcome of
\* send_to_closest.
CreateResult(sent, resps) == Published(sent, publish_register_create_reduce(resps))

\* The outcomes of send_to_closest that make publish_register_create fail:
\* a failed lookup, or a response vector that is not all Ok(()).
FailedCreations ==
    {x \in ({TRUE} \X CmdVectors("CreateRegister")) \cup {<<FALSE, <<>>>>} :
        CreateResult(x[1], x[2]).class # "Ok"}

\* The errors a failed creation returns, and for each of them one outcome of
\* send_to_closest that produces it.
CreateErrors == {CreateResult(x[1], x[2]).err.name : x \in FailedCreations}
FailingWith ==
    [name \in CreateErrors |->
        CHOOSE x \in FailedCreations : CreateResult(x[1], x[2]).err.name = name]

\* The step leaves the replica and the queue as they are, and no Edit op is
\* taken from the queue, published or refused.
SyncTouchesNothing ==
    /\ UNCHANGED <<register, ops, acked, failedAt>>
    /\ inflight' = NoRegisterCmd

\* C31: when sync can neither retrieve the register nor create it, it returns
\* the creation error without merging and without pushing.  From the call of
\* sync to the return of the failed creation no step changes the local replica
\* or the queue of ops, and no Edit op is taken from the queue or sent; the
\* return of a creation that failed with an error ends sync with that error.
C31_SyncCreateFailsUntouched ==
    [][/\ cpc' \in {"get", "create"} => SyncTouchesNothing
       /\ (cpc = "create" /\ cpc' = "idle" /\ cret' # "Ok") =>
             /\ cret' \in CreateErrors
             /\ SyncTouchesNothing
       /\ cpc = "create" =>
             \A name \in CreateErrors :
                CreateReturns(FailingWith[name][1], FailingWith[name][2]) =>
                   /\ cpc' = "idle"
                   /\ cret' = name
                   /\ SyncTouchesNothing]_vars

\* sync returned an error while an op was queued, and no Edit op of this
\* client was ever published or refused: the error is the one of the creation.
C31_Witness ==
    /\ call.name = "sync"
    /\ cpc = "idle"
    /\ cret \notin {"Ok", "none"}
    /\ ops # <<>>
    /\ register # EmptyRegister
    /\ acked = 0
    /\ failedAt = 0

OnlineNames == {"write_online", "write_merging_branches_online", "write_atop_online"}

\* The errors of a local write.
LocalWriteErrors == {"AccessDenied", "ContentBranchDetected"}

\* The step is a call of an online write.
OnlineCall == call' # call /\ call'.name \in OnlineNames

\* The step is the return of an online write whose push failed.
OnlinePushFails ==
    /\ call.name \in OnlineNames
    /\ cpc = "publish"
    /\ cpc' = "idle"
    /\ cret' # "Ok"

\* The op of the last local write that succeeded.
LastWritten == generated[Len(generated)]

\* C32: an online write that fails in its push phase is not rolled back.  A
\* call whose local write fails returns its error with the replica and the
\* queue untouched; otherwise the new entry is applied to the replica and its
\* op is queued before push starts, push never changes the replica, and when
\* push returns an error the entry is still in the replica and its op is
\* still in the queue, at its front.
C32_OnlineWriteNotRolledBack ==
    [][/\ OnlineCall =>
             IF cret' \in LocalWriteErrors
             THEN /\ cpc' = "idle"
                  /\ UNCHANGED <<register, ops, generated>>
             ELSE /\ cpc' = "publish"
                  /\ \E n \in NodesOf(register') \ NodesOf(register) :
                        /\ n.entry = call'.entry
                        /\ NodesOf(register') = NodesOf(register) \cup {n}
                        /\ generated' = Append(generated, EditCmd(n))
                        /\ ops' \o <<inflight'>> = <<EditCmd(n)>> \o ops
       /\ cpc = "publish" => register' = register
       /\ OnlinePushFails =>
             /\ LastWritten.node.entry = call.entry
             /\ LastWritten.node \in NodesOf(register')
             /\ ops' = ops \o <<inflight>>
             /\ ops'[1] = LastWritten]_vars

\* write_online returned AccessDenied from its push phase to a client that
\* may write: the entry is in the replica and its op is queued.
C32_Witness ==
    /\ call.name = "write_online"
    /\ cpc = "idle"
    /\ cret = "AccessDenied"
    /\ mayWrite
    /\ failedAt = 1
    /\ Len(generated) = 1
    /\ ops = generated
    /\ register # EmptyRegister

\* add_if_valid is running, and it has returned.
Handling == pc # "idle"
Returned == pc = "idle" /\ ret \in {"Ok", "Err"}

\* C33: no deadlock in spend validation.  Every invocation of add_if_valid
\* eventually returns, whether the peers it queries answer, fail or never
\* answer: each request it sends ends in a response, a transport error or a
\* ResponseTimeout.
C33_AddIfValidReturns == Handling ~> Returned

\* add_if_valid returned although no peer of the parent's close group
\* answered the query for the parent: every request ran into its timeout.
C33_Witness ==
    /\ Returned
    /\ Len(fetchLog) = 1
    /\ fetchLog[1] = [i \in 1..CLOSE_GROUP_SIZE |-> ResponseTimeout]
    /\ delivered = {}

====
